---- MODULE Spec2Model ----
(***************************************************************************)
(* A model of the caching, reloading and undo code of the Tiled map        *)
(* editor: ImageCache (libtiled/imagecache.cpp), TemplateManager           *)
(* (templatemanager.cpp), ScriptManager (scriptmanager.cpp) and the        *)
(* TilesetEditor operations addTiles and removeTerrainType.                *)
(***************************************************************************)
EXTENDS Integers, Sequences, FiniteSets, TLC

(***************************************************************************)
(* Bounds of the model.                                                    *)
(***************************************************************************)
\* last-modified times of existing files are 1..MaxTime
MaxTime == 2
\* the files are written (created, replaced or deleted) at most MaxWrites times
MaxWrites == 2
\* width and height, in pixels, of every image that decodes
ImageSize == 4
\* the objects a template file can hold are 1..MaxObject
MaxObject == 2
\* the script engines and modules ever created are numbered 1..MaxQObjects
MaxQObjects == 6
\* createTempValue is called at most MaxTemp times on one engine
MaxTemp == 2
\* the undo stack of the tileset document holds at most MaxUndo commands
MaxUndo == 2
\* a tileset has at most MaxTerrains terrains
MaxTerrains == 3
\* a tileset hands out at most MaxTiles tile ids
MaxTiles == 4
\* addTiles is given at most MaxUrls files
MaxUrls == 2
\* the commands on the undo stack of a dummy map document
MaxDockUndo == 1
\* the tileset documents that can be open
MaxDocuments == 3

\* the terrain id of a tile corner without terrain
NoTerrainId == 255
\* Cell::tile() of an empty cell, and no current tile
NoTile == -1
\* a tile has four corners
Corners == 4

\* QDateTime(): the invalid time of a file that does not exist; it orders
\* before every valid time.
InvalidTime == 0

Files == {"f1", "f2"}

(***************************************************************************)
(* TilesheetParameters: f1 is cut in two ways, f2 in one.                   *)
(***************************************************************************)
SmallSheet(f) ==
    [fileName |-> f, tileWidth |-> 1, tileHeight |-> 1, margin |-> 0,
     spacing |-> 0, transparentColor |-> "invalid"]

WideSheet(f) ==
    [fileName |-> f, tileWidth |-> 2, tileHeight |-> 2, margin |-> 1,
     spacing |-> 1, transparentColor |-> "magenta"]

Params == {SmallSheet(f) : f \in Files} \cup {WideSheet("f1")}

\* the order in which a map file lists its tilesets
ParamSeq ==
    <<SmallSheet("f1"), SmallSheet("f2"), WideSheet("f1")>>

\* TilesheetParameters::operator==
ParamsEqual(p, q) ==
    /\ p.fileName = q.fileName
    /\ p.tileWidth = q.tileWidth
    /\ p.tileHeight = q.tileHeight
    /\ p.margin = q.margin
    /\ p.spacing = q.spacing
    /\ p.transparentColor = q.transparentColor

(***************************************************************************)
(* The file system.  A file is absent ("none"), an image Qt decodes        *)
(* ("image"), a map file readMap reads ("map", with the tilesets it        *)
(* names) or something neither can read ("bad").  ver counts the writes of  *)
(* the file and so identifies its content.                                 *)
(***************************************************************************)
NoFile == [kind |-> "none", ver |-> 0, mtime |-> InvalidTime, refs |-> {}]

\* the tilesets of a map file: none, or one whose image is f1 or f2
RefSets == {{}} \cup {{SmallSheet(f)} : f \in Files}

FileStates ==
    [kind : {"none"}, ver : 0..MaxWrites, mtime : {InvalidTime}, refs : {{}}]
    \cup [kind : {"image", "bad"}, ver : 1..MaxWrites, mtime : 1..MaxTime,
          refs : {{}}]
    \cup [kind : {"map"}, ver : 1..MaxWrites, mtime : 1..MaxTime, refs : RefSets]

(***************************************************************************)
(* Cached values.  An image is null or carries the version of the content  *)
(* it was decoded or rendered from.                                        *)
(***************************************************************************)
NullImage(v) == [src |-> v, null |-> TRUE]
DecodedImage(v) == [src |-> v, null |-> FALSE]

NoEntry == [present |-> FALSE, data |-> NullImage(0), lastModified |-> InvalidTime]
Entry(d, t) == [present |-> TRUE, data |-> d, lastModified |-> t]

NoTiles == [src |-> 0, null |-> TRUE, count |-> 0]
NoCutEntry == [present |-> FALSE, data |-> NoTiles, lastModified |-> InvalidTime]

VARIABLES
    files,            \* the file system: Files -> FileStates
    sLoadedImages,    \* ImageCache::sLoadedImages
    sLoadedPixmaps,   \* ImageCache::sLoadedPixmaps
    sCutTiles,        \* ImageCache::sCutTiles
    loadingMaps,      \* the static set of renderMap
    advanced          \* history: the last write of the file left it newer
                      \* than every cache entry of the file

cacheVars ==
    <<files, sLoadedImages, sLoadedPixmaps, sCutTiles, loadingMaps, advanced>>

(***************************************************************************)
(* TemplateManager.  NoTemplate is the null pointer, NoObject the missing  *)
(* object of a template or the content of a file that cannot be read as a  *)
(* template.                                                               *)
(***************************************************************************)
TFiles == {"t1", "t2"}
Instances == 1..Cardinality(TFiles)
NoTemplate == 0
NoObject == 0
\* a null MapDocumentPtr
NoDocument == 0
\* a null TilesetDocument pointer
NoTilesetDocument == 0
\* a null TilesetView pointer
NoView == 0

VARIABLES
    tfiles,            \* the template files: exists, and the object read from it
    mObjectTemplates,  \* TemplateManager::mObjectTemplates: file name -> instance
    templateObject,    \* ObjectTemplate::mObject of each instance
    mWatcher,          \* the paths TemplateManager::mWatcher watches
    tret,              \* the last loadObjectTemplate call and what it returned
    firstReturned,     \* history: what the first loadObjectTemplate(f) returned
    tlog               \* the signals and errors of the last TemplateManager call

templateVars ==
    <<tfiles, mObjectTemplates, templateObject, mWatcher, tret, firstReturned, tlog>>

(***************************************************************************)
(* ScriptManager.  The extensions live in the user's extensions directory  *)
(* "ext" and, when the project names one, in "proj".                       *)
(***************************************************************************)
NoQObject == 0

\* the directories and scripts that may come and go
ScriptPaths == {"ext/a.js", "ext/sub", "ext/sub/b.js", "proj/c.js"}

VARIABLES
    sfs,               \* the members of ScriptPaths that exist
    projectExtensions, \* the project's mExtensionsPath: "" or "proj"
    mExtensionsPath,   \* ScriptManager::mExtensionsPath
    mExtensionsPaths,  \* ScriptManager::mExtensionsPaths
    script,            \* mEngine, mModule, mTempCount, mWatcher's paths, the
                       \* files evaluated by mEngine, the QObjects created and
                       \* those not deleted
    pending,           \* the watcher has a change of a watched path to report
    slast              \* the last ScriptManager handler, and mEngine and
                       \* mModule as they were before it

scriptVars ==
    <<sfs, projectExtensions, mExtensionsPath, mExtensionsPaths, script, pending, slast>>

(***************************************************************************)
(* TilesetEditor: the current tileset, the undo stack of its document and  *)
(* the preference addTiles writes.                                         *)
(***************************************************************************)
VARIABLES
    terrains,      \* Tileset::mTerrainTypes: the terrains, by their ids 0, 1, ...
    tiles,         \* Tileset::tiles(): id, imageSource and terrain of each tile
    nextTileId,    \* Tileset::mNextTileId
    undoStack,     \* the QUndoStack of the document: its commands, its index,
                   \* and the macro being composed
    lastPath       \* Preferences::lastPath(Preferences::ImageFile)

editorVars == <<terrains, tiles, nextTileId, undoStack, lastPath>>

(***************************************************************************)
(* AbstractObjectTool: the object selected in the map and the preference   *)
(* saveObjectTemplate writes.                                              *)
(***************************************************************************)
VARIABLES
    selectedObject,    \* mapDocument()->selectedObjects().first(): what the
                       \* object holds and the template it is an instance of
    lastTemplatePath   \* Preferences::lastPath(Preferences::ObjectTemplateFile)

toolVars == <<selectedObject, lastTemplatePath>>

(***************************************************************************)
(* The open map documents that use the current tileset, and the tile that  *)
(* is current in the tileset editor.                                       *)
(***************************************************************************)
VARIABLES
    maps,          \* TilesetDocument::mapDocuments(): the layers and the undo
                   \* stack of each map document
    mCurrentTile   \* TilesetEditor::mCurrentTile: a tile id, or none

mapVars == <<maps, mCurrentTile>>

(***************************************************************************)
(* TemplatesDock: the dock of the map editor and the dock of the tileset   *)
(* editor, the dummy map documents, and the static hash of them.           *)
(***************************************************************************)
VARIABLES
    docks,              \* of each dock: mObjectTemplate, mDummyMapDocument,
                        \* whether mUndoAction and mRedoAction are enabled, and
                        \* the undo stacks whose indexChanged it is connected to
    documents,          \* of each dummy map document: its object and its undo
                        \* stack
    ourDummyDocuments   \* TemplatesDock::ourDummyDocuments

dockVars == <<docks, documents, ourDummyDocuments>>

(***************************************************************************)
(* TilesetEditor: the tileset documents it was given and their views.      *)
(***************************************************************************)
VARIABLES
    mViewForTileset,          \* TilesetEditor::mViewForTileset
    mWidgetStack,             \* the views in the QStackedWidget and the index
                              \* of the current one
    mCurrentTilesetDocument,  \* TilesetEditor::mCurrentTilesetDocument
    docksDocument,            \* the document the docks of the editor were given
    activeStack,              \* the active stack of DocumentManager's undo group
    lastRemoved               \* the document of the last call, when the call
                              \* was removeDocument

documentVars == <<mViewForTileset, mWidgetStack, mCurrentTilesetDocument,
                  docksDocument, activeStack, lastRemoved>>

vars == <<cacheVars, templateVars, scriptVars, editorVars, toolVars, mapVars,
          dockVars, documentVars>>

\* what the functions of one component leave alone
besidesCache ==
    <<templateVars, scriptVars, editorVars, toolVars, mapVars, dockVars, documentVars>>
besidesTemplates ==
    <<cacheVars, scriptVars, editorVars, toolVars, mapVars, dockVars, documentVars>>
besidesScript ==
    <<cacheVars, templateVars, editorVars, toolVars, mapVars, dockVars, documentVars>>
besidesEditor ==
    <<cacheVars, templateVars, scriptVars, toolVars, mapVars, dockVars, documentVars>>
besidesTool ==
    <<cacheVars, scriptVars, editorVars, mapVars, dockVars, documentVars>>
besidesMaps ==
    <<cacheVars, templateVars, scriptVars, toolVars, dockVars, documentVars>>
besidesDocuments ==
    <<cacheVars, templateVars, scriptVars, editorVars, toolVars, mapVars, dockVars>>
besidesDocks ==
    <<cacheVars, scriptVars, editorVars, toolVars, mapVars, documentVars>>

(***************************************************************************)
(* ImageCache.  The functions are operators on a call state c: the file    *)
(* system, the three caches, renderMap's static set, and what the call did *)
(* so far (the files it decoded, the files it loaded re-entrantly, the     *)
(* errors it logged, the files it gave readMap).                           *)
(***************************************************************************)
CallState(fs, img, pix, cut, loading) ==
    [files |-> fs, img |-> img, pix |-> pix, cut |-> cut, loading |-> loading,
     decoded |-> {}, nested |-> {}, errors |-> {}, reads |-> <<>>]

\* QFileInfo(fileName).lastModified()
LastModified(c, f) == c.files[f].mtime

\* QImage image(fileName): the decoded image, null unless the file is an image
QImageOf(c, f) ==
    IF c.files[f].kind = "image" THEN DecodedImage(c.files[f].ver)
    ELSE NullImage(c.files[f].ver)

\* the key of sCutTiles that is operator== to p
CutKey(p) == CHOOSE q \in Params : ParamsEqual(p, q)

\* remove as it would be if it compared whole keys: only the cut tiles of one
\* set of parameters go
RemoveSt_OneKey(c, f) ==
    [c EXCEPT !.img[f] = NoEntry,
              !.pix[f] = NoEntry,
              !.cut = [q \in Params |->
                         IF ParamsEqual(q, SmallSheet(f)) THEN NoCutEntry
                         ELSE c.cut[q]]]

\* ImageCache::remove
RemoveSt(c, f) ==
    [c EXCEPT !.img[f] = NoEntry,
              !.pix[f] = NoEntry,
              !.cut = [q \in Params |->
                         IF q.fileName = f THEN NoCutEntry ELSE c.cut[q]]]

\* the loops of cutTilesImpl: the number of tiles cut from a w x h image
TilesAlong(len, size, margin, spacing) ==
    IF len - size < margin THEN 0
    ELSE ((len - size - margin) \div (size + spacing)) + 1

TileCount(image, p) ==
    LET w == IF image.null THEN 0 ELSE ImageSize
        h == IF image.null THEN 0 ELSE ImageSize
    IN  TilesAlong(h, p.tileHeight, p.margin, p.spacing)
          * TilesAlong(w, p.tileWidth, p.margin, p.spacing)

RECURSIVE LoadImageSt(_, _)
RECURSIVE RenderMapSt_KeepsLoading(_, _)
RECURSIVE RenderMapSt(_, _)
RECURSIVE ReadMapSt(_, _)
RECURSIVE ReadTilesets(_, _)
RECURSIVE CutTilesSt(_, _)
RECURSIVE CutTilesImpl(_, _)

\* loadImage as it would be if it treated an entry as old at equal times
LoadImageSt_OldAtEqual(c0, f) ==
    LET c == IF c0.loading # {} THEN [c0 EXCEPT !.nested = @ \cup {f}] ELSE c0
        found == c.img[f].present
        old == found /\ c.img[f].lastModified <= LastModified(c, f)
        c1 == IF old THEN RemoveSt(c, f) ELSE c
    IN  IF old \/ ~found
        THEN LET image == QImageOf(c, f)
                 c2 == [c1 EXCEPT !.decoded = @ \cup {f}]
                 rm == IF image.null THEN RenderMapSt(c2, f)
                       ELSE [c |-> c2, r |-> image]
                 e == Entry(rm.r, LastModified(c, f))
             IN  [c |-> [rm.c EXCEPT !.img[f] = e], r |-> e]
        ELSE [c |-> c1, r |-> c1.img[f]]

\* loadImage as it would be if it inserted the entry before rendering the map
\* and returned the rendered image
LoadImageSt_EarlyInsert(c0, f) ==
    LET c == IF c0.loading # {} THEN [c0 EXCEPT !.nested = @ \cup {f}] ELSE c0
        found == c.img[f].present
        old == found /\ c.img[f].lastModified < LastModified(c, f)
        c1 == IF old THEN RemoveSt(c, f) ELSE c
    IN  IF old \/ ~found
        THEN LET image == QImageOf(c, f)
                 c2 == [c1 EXCEPT !.decoded = @ \cup {f},
                                  !.img[f] = Entry(image, LastModified(c, f))]
                 rm == IF image.null THEN RenderMapSt(c2, f)
                       ELSE [c |-> c2, r |-> image]
             IN  [c |-> rm.c, r |-> Entry(rm.r, LastModified(c, f))]
        ELSE [c |-> c1, r |-> c1.img[f]]

\* ImageCache::loadImage
LoadImageSt(c0, f) ==
    LET c == IF c0.loading # {} THEN [c0 EXCEPT !.nested = @ \cup {f}] ELSE c0
        found == c.img[f].present
        old == found /\ c.img[f].lastModified < LastModified(c, f)
        c1 == IF old THEN RemoveSt(c, f) ELSE c
    IN  IF old \/ ~found
        THEN LET image == QImageOf(c, f)
                 c2 == [c1 EXCEPT !.decoded = @ \cup {f}]
                 rm == IF image.null THEN RenderMapSt(c2, f)
                       ELSE [c |-> c2, r |-> image]
                 e == Entry(rm.r, LastModified(c, f))
             IN  [c |-> [rm.c EXCEPT !.img[f] = e], r |-> e]
        ELSE [c |-> c1, r |-> c1.img[f]]

\* renderMap as it would be if it left the file in loadingMaps
RenderMapSt_KeepsLoading(c, f) ==
    IF f \in c.loading
    THEN [c |-> [c EXCEPT !.errors = @ \cup {<<"recursive", f>>}],
          r |-> NullImage(c.files[f].ver)]
    ELSE LET rd == ReadMapSt([c EXCEPT !.loading = @ \cup {f},
                                      !.reads = Append(@, f)], f)
         IN  IF ~rd.ok
             THEN [c |-> [rd.c EXCEPT !.errors = @ \cup {<<"failed", f>>}],
                   r |-> NullImage(c.files[f].ver)]
             ELSE [c |-> rd.c, r |-> DecodedImage(c.files[f].ver)]

\* ImageCache::renderMap
RenderMapSt(c, f) ==
    IF f \in c.loading
    THEN [c |-> [c EXCEPT !.errors = @ \cup {<<"recursive", f>>}],
          r |-> NullImage(c.files[f].ver)]
    ELSE LET rd == ReadMapSt([c EXCEPT !.loading = @ \cup {f},
                                      !.reads = Append(@, f)], f)
             c1 == [rd.c EXCEPT !.loading = @ \ {f}]
         IN  IF ~rd.ok
             THEN [c |-> [c1 EXCEPT !.errors = @ \cup {<<"failed", f>>}],
                   r |-> NullImage(c.files[f].ver)]
             ELSE [c |-> c1, r |-> DecodedImage(c.files[f].ver)]

\* Tiled::readMap: fails unless the file is a map; loads the image of every
\* tileset of the map, in the order the map lists them
ReadMapSt(c, f) ==
    IF c.files[f].kind # "map"
    THEN [c |-> c, ok |-> FALSE]
    ELSE [c |-> ReadTilesets(c, SelectSeq(ParamSeq, LAMBDA p : p \in c.files[f].refs)),
          ok |-> TRUE]

ReadTilesets(c, ps) ==
    IF ps = <<>> THEN c
    ELSE ReadTilesets(CutTilesSt(c, Head(ps)).c, Tail(ps))

\* cutTilesImpl
CutTilesImpl(c, p) ==
    LET li == LoadImageSt(c, p.fileName)
        image == li.r.data
    IN  [c |-> li.c,
         r |-> [present |-> TRUE,
                data |-> [src |-> image.src, null |-> image.null,
                          count |-> TileCount(image, p)],
                lastModified |-> li.r.lastModified]]

\* cutTiles as it would be without the check of the file's time
CutTilesSt_NoTimeCheck(c, p) ==
    LET k == CutKey(p)
        found == c.cut[k].present
    IN  IF ~found
        THEN LET ct == CutTilesImpl(c, p)
             IN  [c |-> [ct.c EXCEPT !.cut[k] = ct.r], r |-> ct.r]
        ELSE [c |-> c, r |-> c.cut[k]]

\* ImageCache::cutTiles
CutTilesSt(c, p) ==
    LET k == CutKey(p)
        found == c.cut[k].present
        old == found /\ c.cut[k].lastModified < LastModified(c, p.fileName)
        c1 == IF old THEN RemoveSt(c, p.fileName) ELSE c
    IN  IF old \/ ~found
        THEN LET ct == CutTilesImpl(c1, p)
             IN  [c |-> [ct.c EXCEPT !.cut[k] = ct.r], r |-> ct.r]
        ELSE [c |-> c1, r |-> c1.cut[k]]

\* LoadedPixmap(const LoadedImage &): QPixmap::fromImage keeps the pixels
LoadedPixmap(cachedImage) ==
    Entry(cachedImage.data, cachedImage.lastModified)

\* loadPixmap as it would be if it took the file's time for the entry's
LoadPixmapSt_Reversed(c, f) ==
    LET found == c.pix[f].present
        old == found /\ LastModified(c, f) < c.pix[f].lastModified
        c1 == IF old THEN RemoveSt(c, f) ELSE c
    IN  IF old \/ ~found
        THEN LET li == LoadImageSt(c1, f)
                 e == LoadedPixmap(li.r)
             IN  [c |-> [li.c EXCEPT !.pix[f] = e], r |-> e]
        ELSE [c |-> c1, r |-> c1.pix[f]]

\* ImageCache::loadPixmap
LoadPixmapSt(c, f) ==
    LET found == c.pix[f].present
        old == found /\ c.pix[f].lastModified < LastModified(c, f)
        c1 == IF old THEN RemoveSt(c, f) ELSE c
    IN  IF old \/ ~found
        THEN LET li == LoadImageSt(c1, f)
                 e == LoadedPixmap(li.r)
             IN  [c |-> [li.c EXCEPT !.pix[f] = e], r |-> e]
        ELSE [c |-> c1, r |-> c1.pix[f]]

(***************************************************************************)
(* The calls as actions: each commits the call state its function leaves.  *)
(***************************************************************************)
Current == CallState(files, sLoadedImages, sLoadedPixmaps, sCutTiles, loadingMaps)

Commit(c) ==
    /\ sLoadedImages' = c.img
    /\ sLoadedPixmaps' = c.pix
    /\ sCutTiles' = c.cut
    /\ loadingMaps' = c.loading

loadImage(f) ==
    LET res == LoadImageSt(Current, f)
    IN  /\ Commit(res.c)
        /\ UNCHANGED <<files, advanced, besidesCache>>

loadPixmap(f) ==
    LET res == LoadPixmapSt(Current, f)
    IN  /\ Commit(res.c)
        /\ UNCHANGED <<files, advanced, besidesCache>>

cutTiles(p) ==
    LET res == CutTilesSt(Current, p)
    IN  /\ Commit(res.c)
        /\ UNCHANGED <<files, advanced, besidesCache>>

remove(f) ==
    /\ Commit(RemoveSt(Current, f))
    /\ UNCHANGED <<files, advanced, besidesCache>>

\* the lastModified recorded in the cache entries of file f
EntryTimes(f) ==
    {e.lastModified : e \in {e \in {sLoadedImages[f], sLoadedPixmaps[f]} : e.present}}
    \cup {sCutTiles[q].lastModified :
            q \in {q \in Params : q.fileName = f /\ sCutTiles[q].present}}

WritesSoFar == files["f1"].ver + files["f2"].ver

\* Another program writes, replaces or deletes file f.  The file gets another
\* content and whatever modification time the writer and the file system give
\* it: later than before, the same (a write within the clock's resolution) or
\* earlier (a copy that keeps the time of its source).
ModifyFile(f) ==
    \E s \in FileStates :
        /\ WritesSoFar < MaxWrites
        /\ s.ver = files[f].ver + 1
        /\ s.kind = "none" => files[f].kind # "none"
        /\ files' = [files EXCEPT ![f] = s]
        /\ advanced' = [advanced EXCEPT
                          ![f] = \A t \in EntryTimes(f) : t < s.mtime]
        /\ UNCHANGED <<sLoadedImages, sLoadedPixmaps, sCutTiles, loadingMaps>>
        /\ UNCHANGED besidesCache

(***************************************************************************)
(* TemplateManager                                                         *)
(***************************************************************************)
TFileStates ==
    {[exists |-> FALSE, object |-> NoObject]}
    \cup [exists : {TRUE}, object : 0..MaxObject]

NoLog == [changed |-> <<>>, errors |-> 0]

\* readObjectTemplate: the object of the template read, or failure
ReadObjectTemplate(f) ==
    IF tfiles[f].exists /\ tfiles[f].object # NoObject
    THEN [ok |-> TRUE, object |-> tfiles[f].object]
    ELSE [ok |-> FALSE, object |-> NoObject]

\* loadObjectTemplate on the template files fs
LoadObjectTemplateIn(fs, f) ==
    LET found == mObjectTemplates[f]
        object == IF fs[f].exists THEN fs[f].object ELSE NoObject
        new == CHOOSE i \in Instances : \A g \in TFiles : mObjectTemplates[g] # i
    IN  IF found = NoTemplate
        THEN [ret |-> new, cached |-> FALSE,
              templates |-> [mObjectTemplates EXCEPT ![f] = new],
              objects |-> [templateObject EXCEPT ![new] = object],
              watcher |-> IF fs[f].exists THEN mWatcher \cup {f} ELSE mWatcher]
        ELSE [ret |-> found, cached |-> TRUE,
              templates |-> mObjectTemplates, objects |-> templateObject,
              watcher |-> mWatcher]

\* TemplateManager::findObjectTemplate: mObjectTemplates.value(fileName)
FindObjectTemplate(f) == mObjectTemplates[f]

\* std::make_unique<ObjectTemplate>: an instance that is not in use
NewInstance == CHOOSE i \in Instances : \A f \in TFiles : mObjectTemplates[f] # i

\* loadObjectTemplate as it would be if it read the file again on every call
LoadObjectTemplateSt_Reread(f) ==
    LET rd == ReadObjectTemplate(f)
        new == NewInstance
    IN  [ret |-> new, cached |-> FALSE,
         templates |-> [mObjectTemplates EXCEPT ![f] = new],
         objects |-> [templateObject EXCEPT ![new] = rd.object],
         watcher |-> IF tfiles[f].exists THEN mWatcher \cup {f} ELSE mWatcher]

\* loadObjectTemplate as it would be if it watched the file whether or not it
\* exists
LoadObjectTemplateSt_AlwaysWatches(f) ==
    LET found == FindObjectTemplate(f)
        rd == ReadObjectTemplate(f)
        new == NewInstance
    IN  IF found = NoTemplate
        THEN [ret |-> new, cached |-> FALSE,
              templates |-> [mObjectTemplates EXCEPT ![f] = new],
              objects |-> [templateObject EXCEPT ![new] = rd.object],
              watcher |-> mWatcher \cup {f}]
        ELSE [ret |-> found, cached |-> TRUE,
              templates |-> mObjectTemplates, objects |-> templateObject,
              watcher |-> mWatcher]

\* TemplateManager::loadObjectTemplate
LoadObjectTemplateSt(f) ==
    LET found == FindObjectTemplate(f)
        rd == ReadObjectTemplate(f)
        new == NewInstance
    IN  IF found = NoTemplate
        THEN [ret |-> new, cached |-> FALSE,
              templates |-> [mObjectTemplates EXCEPT ![f] = new],
              objects |-> [templateObject EXCEPT ![new] = rd.object],
              watcher |-> IF tfiles[f].exists THEN mWatcher \cup {f} ELSE mWatcher]
        ELSE [ret |-> found, cached |-> TRUE,
              templates |-> mObjectTemplates, objects |-> templateObject,
              watcher |-> mWatcher]

\* fileChanged as it would be if it passed on the object of a failed read
FileChangedSt_SetsOnFailure(f) ==
    LET found == FindObjectTemplate(f)
        rd == ReadObjectTemplate(f)
    IN  IF found = NoTemplate
        THEN [objects |-> templateObject, log |-> NoLog]
        ELSE [objects |-> [templateObject EXCEPT ![found] = rd.object],
              log |-> [changed |-> <<found>>, errors |-> 0]]

\* TemplateManager::fileChanged
FileChangedSt(f) ==
    LET found == FindObjectTemplate(f)
        rd == ReadObjectTemplate(f)
    IN  IF found = NoTemplate
        THEN [objects |-> templateObject, log |-> NoLog]
        ELSE IF rd.ok
        THEN [objects |-> [templateObject EXCEPT ![found] = rd.object],
              log |-> [changed |-> <<found>>, errors |-> 0]]
        ELSE [objects |-> templateObject,
              log |-> [changed |-> <<>>, errors |-> 1]]

loadObjectTemplate(f) ==
    LET res == LoadObjectTemplateSt(f)
    IN  /\ mObjectTemplates' = res.templates
        /\ templateObject' = res.objects
        /\ mWatcher' = res.watcher
        /\ tret' = [file |-> f, instance |-> res.ret, cached |-> res.cached]
        /\ firstReturned' = IF firstReturned[f] = NoTemplate
                            THEN [firstReturned EXCEPT ![f] = res.ret]
                            ELSE firstReturned
        /\ tlog' = NoLog
        /\ UNCHANGED <<tfiles, besidesTemplates>>

fileChanged(f) ==
    LET res == FileChangedSt(f)
    IN  /\ templateObject' = res.objects
        /\ tlog' = res.log
        /\ UNCHANGED <<tfiles, mObjectTemplates, mWatcher, tret, firstReturned>>
        /\ UNCHANGED besidesTemplates

\* another program writes or deletes a template file
WriteTemplateFile(f) ==
    \E s \in TFileStates :
        /\ s # tfiles[f]
        /\ tfiles' = [tfiles EXCEPT ![f] = s]
        /\ UNCHANGED <<mObjectTemplates, templateObject, mWatcher, tret,
                       firstReturned, tlog>>
        /\ UNCHANGED besidesTemplates

NoReturn == [file |-> "t1", instance |-> NoTemplate, cached |-> FALSE]

InitTemplates ==
    /\ tfiles = [f \in TFiles |-> [exists |-> FALSE, object |-> NoObject]]
    /\ mObjectTemplates = [f \in TFiles |-> NoTemplate]
    /\ templateObject = [i \in Instances |-> NoObject]
    /\ mWatcher = {}
    /\ tret = NoReturn
    /\ firstReturned = [f \in TFiles |-> NoTemplate]
    /\ tlog = NoLog

NextTemplates ==
    \/ \E f \in TFiles : loadObjectTemplate(f)
    \/ \E f \in TFiles : fileChanged(f)
    \/ \E f \in TFiles : WriteTemplateFile(f)

(***************************************************************************)
(* ScriptManager                                                           *)
(***************************************************************************)
\* QDir(path).entryList(Dirs | Readable | NoDotAndDotDot), as full paths
SubDirs(fs, path) ==
    IF path = "ext" /\ "ext/sub" \in fs THEN <<"ext/sub">> ELSE <<>>

\* QDir(path).entryList({"*.js"}, Files | Readable), as full paths
JsFiles(fs, path) ==
    CASE path = "ext" /\ "ext/a.js" \in fs -> <<"ext/a.js">>
      [] path = "ext/sub" /\ "ext/sub/b.js" \in fs -> <<"ext/sub/b.js">>
      [] path = "proj" /\ "proj/c.js" \in fs -> <<"proj/c.js">>
      [] OTHER -> <<>>

\* the directory a path is in
Parent(path) ==
    CASE path = "ext/a.js" -> "ext"
      [] path = "ext/sub" -> "ext"
      [] path = "ext/sub/b.js" -> "ext/sub"
      [] path = "proj/c.js" -> "proj"

RECURSIVE SearchPaths(_, _)
\* the first loop of loadExtensions: every extensions path, then its folders
SearchPaths(fs, paths) ==
    IF paths = <<>> THEN <<>>
    ELSE <<Head(paths)>> \o SubDirs(fs, Head(paths)) \o SearchPaths(fs, Tail(paths))

RECURSIVE EvaluateFiles(_, _)
\* the loop of loadExtension: evaluateFile, then mWatcher.addPath
EvaluateFiles(st, jsFiles) ==
    IF jsFiles = <<>> THEN st
    ELSE EvaluateFiles([st EXCEPT !.evaluated = Append(@, Head(jsFiles)),
                                  !.watched = @ \cup {Head(jsFiles)}],
                       Tail(jsFiles))

\* ScriptManager::loadExtension
LoadExtension(st, fs, path) ==
    EvaluateFiles([st EXCEPT !.watched = @ \cup {path}], JsFiles(fs, path))

RECURSIVE LoadEach(_, _, _)
LoadEach(st, fs, paths) ==
    IF paths = <<>> THEN st
    ELSE LoadEach(LoadExtension(st, fs, Head(paths)), fs, Tail(paths))

\* ScriptManager::loadExtensions
LoadExtensions(st, fs, extensionsPaths) ==
    LoadEach(st, fs, SearchPaths(fs, extensionsPaths))

\* ScriptManager::initialize
Initialize(st, fs, extensionsPaths) ==
    LoadExtensions([st EXCEPT !.mEngine = st.created + 1,
                              !.mModule = st.created + 2,
                              !.created = @ + 2,
                              !.live = @ \cup {st.created + 1, st.created + 2},
                              !.evaluated = <<>>],
                   fs, extensionsPaths)

\* reset as it would be if it kept the watcher's paths
ResetSt_KeepsWatcher(st, fs, extensionsPaths) ==
    Initialize([st EXCEPT !.live = @ \ {st.mEngine, st.mModule},
                          !.mEngine = NoQObject,
                          !.mModule = NoQObject,
                          !.mTempCount = 0],
               fs, extensionsPaths)

\* ScriptManager::reset
ResetSt(st, fs, extensionsPaths) ==
    Initialize([st EXCEPT !.watched = {},
                          !.live = @ \ {st.mEngine, st.mModule},
                          !.mEngine = NoQObject,
                          !.mModule = NoQObject,
                          !.mTempCount = 0],
               fs, extensionsPaths)

\* extensionsPaths.sort(); extensionsPaths.removeDuplicates()
SortedPaths(paths) ==
    SelectSeq(<<"ext", "proj">>, LAMBDA q : \E i \in DOMAIN paths : paths[i] = q)

\* the list refreshExtensionsPaths builds; "proj" is a directory that exists
NewExtensionsPaths(projectExtensionsPath) ==
    SortedPaths((IF mExtensionsPath # "" THEN <<mExtensionsPath>> ELSE <<>>)
                \o (IF projectExtensionsPath # ""
                    THEN <<projectExtensionsPath>> ELSE <<>>))

\* what slast keeps of a handler: its name and the engine, the module and the
\* temp-value counter it found
Handled(name) ==
    [handler |-> name, mEngine |-> script.mEngine, mModule |-> script.mModule,
     mTempCount |-> script.mTempCount]

\* ScriptManager::ensureInitialized, with the refreshExtensionsPaths it calls
ensureInitialized ==
    /\ script.mEngine = NoQObject
    /\ script.created + 2 <= MaxQObjects
    /\ LET paths == IF mExtensionsPaths = <<>>
                    THEN NewExtensionsPaths(projectExtensions)
                    ELSE mExtensionsPaths
       IN  /\ mExtensionsPaths' = paths
           /\ script' = Initialize(script, sfs, paths)
    /\ slast' = Handled("ensureInitialized")
    /\ UNCHANGED <<sfs, projectExtensions, mExtensionsPath, pending>>
    /\ UNCHANGED besidesScript

\* ScriptManager::createTempValue
createTempValue ==
    /\ script.mEngine # NoQObject
    /\ script.mTempCount < MaxTemp
    /\ script' = [script EXCEPT !.mTempCount = @ + 1]
    /\ slast' = Handled("createTempValue")
    /\ UNCHANGED <<sfs, projectExtensions, mExtensionsPath, mExtensionsPaths, pending>>
    /\ UNCHANGED besidesScript

\* ScriptManager::scriptFilesChanged, called when mWatcher reports changes
scriptFilesChanged ==
    /\ pending
    /\ script.created + 2 <= MaxQObjects
    /\ script' = ResetSt(script, sfs, mExtensionsPaths)
    /\ pending' = FALSE
    /\ slast' = Handled("scriptFilesChanged")
    /\ UNCHANGED <<sfs, projectExtensions, mExtensionsPath, mExtensionsPaths>>
    /\ UNCHANGED besidesScript

\* MainWindow::projectChanged: the project, and with it its extensions path,
\* changes and ScriptManager::refreshExtensionsPaths runs
projectChanged(path) ==
    /\ path # projectExtensions
    /\ script.created + 2 <= MaxQObjects
    /\ projectExtensions' = path
    /\ LET paths == NewExtensionsPaths(path)
       IN  IF paths = mExtensionsPaths
           THEN UNCHANGED <<mExtensionsPaths, script, pending>>
           ELSE /\ mExtensionsPaths' = paths
                /\ IF script.mEngine # NoQObject
                   THEN /\ script' = ResetSt(script, sfs, paths)
                        /\ pending' = FALSE
                   ELSE UNCHANGED <<script, pending>>
    /\ slast' = Handled("refreshExtensionsPaths")
    /\ UNCHANGED <<sfs, mExtensionsPath>>
    /\ UNCHANGED besidesScript

\* the watcher notices a change of a path when the path or its directory is
\* watched
Noticed(path) ==
    pending \/ path \in script.watched \/ Parent(path) \in script.watched

\* a script or an extension folder is created
CreateScriptPath(path) ==
    /\ path \notin sfs
    /\ path = "ext/sub/b.js" => "ext/sub" \in sfs
    /\ sfs' = sfs \cup {path}
    /\ pending' = Noticed(path)
    /\ slast' = Handled("none")
    /\ UNCHANGED <<projectExtensions, mExtensionsPath, mExtensionsPaths, script>>
    /\ UNCHANGED besidesScript

\* a script, or an extension folder with its script, is removed
RemoveScriptPath(path) ==
    /\ path \in sfs
    /\ sfs' = IF path = "ext/sub" THEN sfs \ {path, "ext/sub/b.js"} ELSE sfs \ {path}
    /\ pending' = Noticed(path)
    /\ slast' = Handled("none")
    /\ UNCHANGED <<projectExtensions, mExtensionsPath, mExtensionsPaths, script>>
    /\ UNCHANGED besidesScript

\* a script is rewritten
RewriteScript(path) ==
    /\ path \in sfs
    /\ path # "ext/sub"
    /\ pending' = Noticed(path)
    /\ slast' = Handled("none")
    /\ UNCHANGED <<sfs, projectExtensions, mExtensionsPath, mExtensionsPaths, script>>
    /\ UNCHANGED besidesScript

InitScript ==
    /\ sfs = {}
    /\ projectExtensions = ""
    /\ mExtensionsPath = "ext"
    /\ mExtensionsPaths = <<>>
    /\ script = [mEngine |-> NoQObject, mModule |-> NoQObject, mTempCount |-> 0,
                 watched |-> {}, evaluated |-> <<>>, created |-> 0, live |-> {}]
    /\ pending = FALSE
    /\ slast = [handler |-> "none", mEngine |-> NoQObject, mModule |-> NoQObject,
                mTempCount |-> 0]

NextScript ==
    \/ ensureInitialized
    \/ createTempValue
    \/ scriptFilesChanged
    \/ \E path \in {"", "proj"} : projectChanged(path)
    \/ \E path \in ScriptPaths : CreateScriptPath(path)
    \/ \E path \in ScriptPaths : RemoveScriptPath(path)
    \/ \E path \in ScriptPaths : RewriteScript(path)

InitImageCache ==
    /\ files = [f \in Files |-> NoFile]
    /\ sLoadedImages = [f \in Files |-> NoEntry]
    /\ sLoadedPixmaps = [f \in Files |-> NoEntry]
    /\ sCutTiles = [p \in Params |-> NoCutEntry]
    /\ loadingMaps = {}
    /\ advanced = [f \in Files |-> TRUE]

NextImageCache ==
    \/ \E f \in Files : loadImage(f)
    \/ \E f \in Files : loadPixmap(f)
    \/ \E p \in Params : cutTiles(p)
    \/ \E f \in Files : remove(f)
    \/ \E f \in Files : ModifyFile(f)

(***************************************************************************)
(* TilesetEditor.  The state an operation works on is the record e of the  *)
(* tileset (terrains, tiles, nextTileId), the undo stack of its document   *)
(* and the last-used image path.  A command is a record of its kind and    *)
(* what it holds; the terrain of a tile is its four corner bytes.          *)
(***************************************************************************)
CornerIds == 0..(Corners - 1)

\* a tile without terrain: Tile::mTerrain is -1, every corner byte 0xFF
NoTerrain == [corner \in CornerIds |-> NoTerrainId]

\* Tile::cornerTerrainId
cornerTerrainId(terrain, corner) == terrain[corner]

\* setTerrainCorner
setTerrainCorner(terrain, corner, terrainId) ==
    [terrain EXCEPT ![corner] = terrainId]

EmptyUndoStack == [cmds |-> <<>>, index |-> 0, open |-> FALSE, children |-> <<>>]

EditorState(tr, ts, next, undo, path) ==
    [terrains |-> tr, tiles |-> ts, nextTileId |-> next, undo |-> undo,
     lastPath |-> path]

AddTilesCmd(newTiles) == [kind |-> "AddTiles", tiles |-> newTiles]
RemoveTilesCmd(oldTiles) == [kind |-> "RemoveTiles", tiles |-> oldTiles]
ChangeTileTerrainCmd(changes) == [kind |-> "ChangeTileTerrain", changes |-> changes]
AddTerrainCmd(index, terrain) ==
    [kind |-> "AddTerrain", index |-> index, terrain |-> terrain]
RemoveTerrainCmd(index, terrain) ==
    [kind |-> "RemoveTerrain", index |-> index, terrain |-> terrain]
MacroCmd(children) == [kind |-> "macro", children |-> children]

\* Tileset::takeTerrainAt: the terrains after index move down by one id, and
\* so do the tile corners that name them; the corners that name index are
\* cleared
TakeTerrainAt(e, index) ==
    [e EXCEPT
       !.terrains = SubSeq(@, 1, index) \o SubSeq(@, index + 2, Len(@)),
       !.tiles = [i \in DOMAIN @ |->
                    [@[i] EXCEPT !.terrain =
                       [corner \in CornerIds |->
                          LET terrainId == cornerTerrainId(@, corner)
                          IN  IF terrainId = NoTerrainId THEN terrainId
                              ELSE IF terrainId = index THEN NoTerrainId
                              ELSE IF terrainId > index THEN terrainId - 1
                              ELSE terrainId]]]]

\* Tileset::insertTerrain: the terrains from index on move up by one id, and
\* so do the tile corners that name them
InsertTerrain(e, index, terrain) ==
    [e EXCEPT
       !.terrains = SubSeq(@, 1, index) \o <<terrain>> \o SubSeq(@, index + 1, Len(@)),
       !.tiles = [i \in DOMAIN @ |->
                    [@[i] EXCEPT !.terrain =
                       [corner \in CornerIds |->
                          LET terrainId == cornerTerrainId(@, corner)
                          IN  IF terrainId = NoTerrainId THEN terrainId
                              ELSE IF terrainId >= index THEN terrainId + 1
                              ELSE terrainId]]]]

\* the terrain a ChangeTileTerrain gives a tile: from or to for the tiles in
\* its changes
ChangedTerrain(tile, changes, redoing) ==
    IF \E ch \in changes : ch.tile = tile.id
    THEN LET ch == CHOOSE ch \in changes : ch.tile = tile.id
         IN  IF redoing THEN ch.to ELSE ch.from
    ELSE tile.terrain

RECURSIVE RedoCmd(_, _)
RECURSIVE UndoCmd(_, _)
RECURSIVE RedoAll(_, _)
RECURSIVE UndoAll(_, _)

\* Tileset::tiles() keeps the tiles by their ids: the tiles of a set, in the
\* order of their ids
TilesById(tileSet) ==
    [i \in 1..Cardinality(tileSet) |->
        CHOOSE tile \in tileSet :
            Cardinality({other \in tileSet : other.id < tile.id}) = i - 1]

\* Tileset::removeTiles
TakeTiles(e, oldTiles) ==
    [e EXCEPT !.tiles = SelectSeq(@, LAMBDA tile :
        \A i \in DOMAIN oldTiles : oldTiles[i].id # tile.id)]

\* Tileset::addTiles of tiles that were taken out
PutTiles(e, oldTiles) ==
    [e EXCEPT !.tiles = TilesById({e.tiles[i] : i \in DOMAIN e.tiles}
                                  \cup {oldTiles[i] : i \in DOMAIN oldTiles})]

\* QUndoCommand::redo of each kind of command
RedoCmd(e, cmd) ==
    CASE cmd.kind = "AddTiles" ->
           [e EXCEPT !.tiles = @ \o cmd.tiles]
      [] cmd.kind = "RemoveTiles" -> TakeTiles(e, cmd.tiles)
      [] cmd.kind = "ChangeTileTerrain" ->
           [e EXCEPT !.tiles = [i \in DOMAIN @ |->
               [@[i] EXCEPT !.terrain = ChangedTerrain(e.tiles[i], cmd.changes, TRUE)]]]
      [] cmd.kind = "AddTerrain" -> InsertTerrain(e, cmd.index, cmd.terrain)
      [] cmd.kind = "RemoveTerrain" -> TakeTerrainAt(e, cmd.index)
      [] cmd.kind = "macro" -> RedoAll(e, cmd.children)

\* QUndoCommand::undo of each kind of command
UndoCmd(e, cmd) ==
    CASE cmd.kind = "AddTiles" ->
           [e EXCEPT !.tiles = SelectSeq(@, LAMBDA tile :
               \A i \in DOMAIN cmd.tiles : cmd.tiles[i].id # tile.id)]
      [] cmd.kind = "RemoveTiles" -> PutTiles(e, cmd.tiles)
      [] cmd.kind = "ChangeTileTerrain" ->
           [e EXCEPT !.tiles = [i \in DOMAIN @ |->
               [@[i] EXCEPT !.terrain = ChangedTerrain(e.tiles[i], cmd.changes, FALSE)]]]
      [] cmd.kind = "AddTerrain" -> TakeTerrainAt(e, cmd.index)
      [] cmd.kind = "RemoveTerrain" -> InsertTerrain(e, cmd.index, cmd.terrain)
      [] cmd.kind = "macro" -> UndoAll(e, cmd.children)

\* a macro redoes its children first to last
RedoAll(e, children) ==
    IF children = <<>> THEN e
    ELSE RedoAll(RedoCmd(e, Head(children)), Tail(children))

\* a macro undoes its children last to first
UndoAll(e, children) ==
    IF children = <<>> THEN e
    ELSE UndoAll(UndoCmd(e, children[Len(children)]),
                 SubSeq(children, 1, Len(children) - 1))

\* QUndoStack::push: the command is executed; it becomes a child of the macro
\* being composed, or the last command of the stack in place of the undone ones
Push(e, cmd) ==
    LET done == RedoCmd(e, cmd)
    IN  IF e.undo.open
        THEN [done EXCEPT !.undo.children = Append(@, cmd)]
        ELSE [done EXCEPT
                !.undo.cmds = Append(SubSeq(@, 1, e.undo.index), cmd),
                !.undo.index = @ + 1]

\* QUndoStack::beginMacro
BeginMacro(e) ==
    IF e.undo.open THEN e
    ELSE [e EXCEPT !.undo.cmds = SubSeq(@, 1, e.undo.index),
                   !.undo.open = TRUE,
                   !.undo.children = <<>>]

\* QUndoStack::endMacro
EndMacro(e) ==
    IF ~e.undo.open THEN e
    ELSE [e EXCEPT !.undo.cmds = Append(@, MacroCmd(e.undo.children)),
                   !.undo.index = @ + 1,
                   !.undo.open = FALSE,
                   !.undo.children = <<>>]

\* QUndoStack::undo
UndoSt(e) ==
    IF e.undo.open \/ e.undo.index = 0 THEN e
    ELSE [UndoCmd(e, e.undo.cmds[e.undo.index]) EXCEPT !.undo.index = @ - 1]

\* QUndoStack::redo
RedoSt(e) ==
    IF e.undo.open \/ e.undo.index = Len(e.undo.cmds) THEN e
    ELSE [RedoCmd(e, e.undo.cmds[e.undo.index + 1]) EXCEPT !.undo.index = @ + 1]

\* the state the editor is in
Here == EditorState(terrains, tiles, nextTileId, undoStack, lastPath)

CommitEditor(e) ==
    /\ terrains' = e.terrains
    /\ tiles' = e.tiles
    /\ nextTileId' = e.nextTileId
    /\ undoStack' = e.undo
    /\ lastPath' = e.lastPath

\* Terrain::id(): the place of the terrain in mTerrainTypes
TerrainId(e, terrain) ==
    (CHOOSE i \in DOMAIN e.terrains : e.terrains[i] = terrain) - 1

RECURSIVE ClearCorners(_, _, _, _)
\* the loop over the corners of a tile in removeTerrainType
ClearCorners(tileTerrain, tile, id, corner) ==
    IF corner >= Corners THEN tileTerrain
    ELSE ClearCorners(IF cornerTerrainId(tile.terrain, corner) = id
                      THEN setTerrainCorner(tileTerrain, corner, NoTerrainId)
                      ELSE tileTerrain,
                      tile, id, corner + 1)

\* the changes removeTerrainType collects: the tiles that name the terrain
TerrainChanges(e, id) ==
    {[tile |-> e.tiles[i].id, from |-> e.tiles[i].terrain,
      to |-> ClearCorners(e.tiles[i].terrain, e.tiles[i], id, 0)] :
        i \in {i \in DOMAIN e.tiles :
                 ClearCorners(e.tiles[i].terrain, e.tiles[i], id, 0)
                     # e.tiles[i].terrain}}

\* removeTerrainType as it would be without beginMacro and endMacro
RemoveTerrainTypeSt_NoMacro(e, terrain) ==
    LET id == TerrainId(e, terrain)
        removeTerrain == RemoveTerrainCmd(id, terrain)
        changes == TerrainChanges(e, id)
        e1 == IF changes # {}
              THEN Push(e, ChangeTileTerrainCmd(changes))
              ELSE e
    IN  Push(e1, removeTerrain)

\* TilesetEditor::removeTerrainType with terrain the current terrain
RemoveTerrainTypeSt(e, terrain) ==
    LET id == TerrainId(e, terrain)
        removeTerrain == RemoveTerrainCmd(id, terrain)
        changes == TerrainChanges(e, id)
        e1 == IF changes # {}
              THEN Push(BeginMacro(e), ChangeTileTerrainCmd(changes))
              ELSE e
        e2 == Push(e1, removeTerrain)
    IN  IF changes # {} THEN EndMacro(e2) ELSE e2

RECURSIVE TerrainsOf(_)
\* the terrains the commands hold
TerrainsOf(cmds) ==
    IF cmds = <<>> THEN {}
    ELSE LET cmd == Head(cmds)
         IN  (CASE cmd.kind \in {"AddTerrain", "RemoveTerrain"} -> {cmd.terrain}
                [] cmd.kind = "macro" -> TerrainsOf(cmd.children)
                [] OTHER -> {})
             \cup TerrainsOf(Tail(cmds))

\* the Terrain objects that exist: in the tileset or held by a command
TerrainsInUse(e) ==
    {e.terrains[i] : i \in DOMAIN e.terrains} \cup TerrainsOf(e.undo.cmds)

\* TilesetEditor::addTerrainType, terrain the Terrain it creates
AddTerrainTypeSt(e, terrain) ==
    Push(e, AddTerrainCmd(Len(e.terrains), terrain))

removeTerrainType(terrain) ==
    /\ \E i \in DOMAIN terrains : terrains[i] = terrain
    /\ undoStack.index < MaxUndo
    /\ CommitEditor(RemoveTerrainTypeSt(Here, terrain))
    /\ UNCHANGED besidesEditor

addTerrainType(terrain) ==
    /\ terrain \notin TerrainsInUse(Here)
    /\ Len(terrains) < MaxTerrains
    /\ undoStack.index < MaxUndo
    /\ CommitEditor(AddTerrainTypeSt(Here, terrain))
    /\ UNCHANGED besidesEditor

\* Edit > Undo on the stack of the tileset document
undo ==
    /\ undoStack.index > 0
    /\ CommitEditor(UndoSt(Here))
    /\ UNCHANGED besidesEditor

\* Edit > Redo on the stack of the tileset document
redo ==
    /\ undoStack.index < Len(undoStack.cmds)
    /\ CommitEditor(RedoSt(Here))
    /\ UNCHANGED besidesEditor

\* the files the user can pick in the Add Tiles dialog
Urls == {"a.png", "b.png", "broken.png", "http://host/c.png"}

\* QUrl::toLocalFile: empty for a URL that is not a local file
toLocalFile(url) == IF url = "http://host/c.png" THEN "" ELSE url

\* QPixmap(fileName).isNull(): a.png and b.png are images that load
PixmapIsNull(fileName) == fileName \notin {"a.png", "b.png"}

\* hasTileInTileset
hasTileInTileset(imageSource, tilesetTiles) ==
    \E i \in DOMAIN tilesetTiles : tilesetTiles[i].source = imageSource

\* what the user answers when asked about one URL: Yes or No and the check box
\* of the "already exists" warning, Ignore or Cancel of "Could not load"
Answers ==
    [choice : {"Yes", "No"}, checked : BOOLEAN, failure : {"Ignore", "Cancel"}]

\* the answers that can matter for a URL: there is nothing to answer where no
\* question can be asked
AnswersAt(e, url) ==
    {a \in Answers :
        /\ ~hasTileInTileset(url, e.tiles) => a.choice = "Yes" /\ ~a.checked
        /\ ~PixmapIsNull(toLocalFile(url)) => a.failure = "Ignore"}

RECURSIVE AnswersFor(_, _)
AnswersFor(e, urls) ==
    IF urls = <<>> THEN {<<>>}
    ELSE {<<a>> \o rest : a \in AnswersAt(e, Head(urls)),
                          rest \in AnswersFor(e, Tail(urls))}

\* the lists of files the dialog can return: openAddTilesDialog calls addTiles
\* when the list is not empty
UrlLists == UNION {[1..n -> Urls] : n \in 1..MaxUrls}

StartOfLoop ==
    [dontAskAgain |-> FALSE, rememberOption |-> TRUE, loadedFiles |-> <<>>,
     returned |-> FALSE]

RECURSIVE AddTilesLoop_BreakOnCancel(_, _, _, _)
RECURSIVE AddTilesLoop(_, _, _, _)

\* the loop of addTiles as it would be if Cancel only ended the loop
AddTilesLoop_BreakOnCancel(e, urls, answers, l) ==
    IF urls = <<>> THEN l
    ELSE
      LET url == Head(urls)
          a == Head(answers)
          asks == /\ ~(l.dontAskAgain /\ l.rememberOption)
                  /\ hasTileInTileset(url, e.tiles)
          l1 == IF asks /\ ~l.dontAskAgain
                THEN [l EXCEPT !.dontAskAgain = a.checked,
                               !.rememberOption = (a.choice = "Yes")]
                ELSE l
      IN  IF asks /\ l.dontAskAgain
          THEN AddTilesLoop_BreakOnCancel(e, Tail(urls), Tail(answers), l)
          ELSE IF asks /\ ~l1.rememberOption
          THEN AddTilesLoop_BreakOnCancel(e, Tail(urls), Tail(answers), l1)
          ELSE IF ~PixmapIsNull(toLocalFile(url))
          THEN AddTilesLoop_BreakOnCancel(e, Tail(urls), Tail(answers),
                            [l1 EXCEPT !.loadedFiles = Append(@, url)])
          ELSE IF a.failure # "Ignore"
          THEN l1
          ELSE AddTilesLoop_BreakOnCancel(e, Tail(urls), Tail(answers), l1)

\* the loop of addTiles over the URLs; l holds its local variables and
\* whether it returned from addTiles
AddTilesLoop(e, urls, answers, l) ==
    IF urls = <<>> THEN l
    ELSE
      LET url == Head(urls)
          a == Head(answers)
          asks == /\ ~(l.dontAskAgain /\ l.rememberOption)
                  /\ hasTileInTileset(url, e.tiles)
          l1 == IF asks /\ ~l.dontAskAgain
                THEN [l EXCEPT !.dontAskAgain = a.checked,
                               !.rememberOption = (a.choice = "Yes")]
                ELSE l
      IN  IF asks /\ l.dontAskAgain
          THEN AddTilesLoop(e, Tail(urls), Tail(answers), l)
          ELSE IF asks /\ ~l1.rememberOption
          THEN AddTilesLoop(e, Tail(urls), Tail(answers), l1)
          ELSE IF ~PixmapIsNull(toLocalFile(url))
          THEN AddTilesLoop(e, Tail(urls), Tail(answers),
                            [l1 EXCEPT !.loadedFiles = Append(@, url)])
          ELSE IF a.failure # "Ignore"
          THEN [l1 EXCEPT !.returned = TRUE]
          ELSE AddTilesLoop(e, Tail(urls), Tail(answers), l1)

\* the tiles addTiles creates, each with the id takeNextTileId returns
NewTiles(e, loadedFiles) ==
    [i \in DOMAIN loadedFiles |->
        [id |-> e.nextTileId + i - 1, source |-> loadedFiles[i],
         terrain |-> NoTerrain]]

\* TilesetEditor::addTiles on a current tileset
AddTilesSt(e, urls, answers) ==
    LET l == AddTilesLoop(e, urls, answers, StartOfLoop)
        lastLocalFile == toLocalFile(urls[Len(urls)])
        e1 == IF lastLocalFile # ""
              THEN [e EXCEPT !.lastPath = lastLocalFile]
              ELSE e
        e2 == [e1 EXCEPT !.nextTileId = @ + Len(l.loadedFiles)]
    IN  IF l.returned \/ l.loadedFiles = <<>> THEN e
        ELSE Push(e2, AddTilesCmd(NewTiles(e, l.loadedFiles)))

\* addTiles with the files the user picked and the answers the user gives
addTiles(urls) ==
    /\ nextTileId + Len(urls) <= MaxTiles
    /\ undoStack.index < MaxUndo
    /\ \E answers \in AnswersFor(Here, urls) :
          CommitEditor(AddTilesSt(Here, urls, answers))
    /\ UNCHANGED besidesEditor

\* a tileset of one tile, without terrains, is open in the editor
InitAddTiles ==
    /\ terrains = <<>>
    /\ tiles = <<[id |-> 0, source |-> "a.png", terrain |-> NoTerrain]>>
    /\ nextTileId = 1
    /\ undoStack = EmptyUndoStack
    /\ lastPath = ""

\* the terrains of the tiles of the tileset that is open: the corners name
\* one of its two terrains or none
InitialTerrains ==
    [CornerIds -> {0, 1, NoTerrainId}]

\* a tileset of two terrains and two tiles is open in the editor; the second
\* tile has no terrain, the first terrain or the second at all its corners
InitTerrain ==
    /\ terrains = <<1, 2>>
    /\ \E t0 \in InitialTerrains :
       \E t1 \in {NoTerrain, [corner \in CornerIds |-> 0],
                  [corner \in CornerIds |-> 1]} :
          tiles = <<[id |-> 0, source |-> "a.png", terrain |-> t0],
                    [id |-> 1, source |-> "b.png", terrain |-> t1]>>
    /\ nextTileId = 2
    /\ undoStack = EmptyUndoStack
    /\ lastPath = ""

NextAddTiles ==
    \/ \E urls \in UrlLists : addTiles(urls)
    \/ undo
    \/ redo

NextTerrain ==
    \/ \E terrain \in 1..MaxTerrains : removeTerrainType(terrain)
    \/ \E terrain \in 1..MaxTerrains : addTerrainType(terrain)
    \/ undo
    \/ redo

(***************************************************************************)
(* TilesetEditor::removeTiles.  A map is the tree of its layers; a layer   *)
(* is a tile layer (its cells), an object group (its objects), a group     *)
(* layer (its layers) or an image layer.  A cell is the id of its tile, or *)
(* NoTile.                                                                 *)
(***************************************************************************)
MapDocs == {"m1", "m2"}

Layer(id, type, cells, objects, layers) ==
    [id |-> id, type |-> type, cells |-> cells, objects |-> objects,
     layers |-> layers]

TileLayer(id, cells) == Layer(id, "tile", cells, <<>>, <<>>)
ObjectGroup(id, objects) == Layer(id, "objects", <<>>, objects, <<>>)
GroupLayer(id, layers) == Layer(id, "group", <<>>, <<>>, layers)
ImageLayer(id) == Layer(id, "image", <<>>, <<>>, <<>>)

MapObject(id, cell) == [id |-> id, cell |-> cell]

\* the lambda matchesAnyTile of removeTiles
matchesAnyTile(removedTiles, cell) ==
    IF cell # NoTile THEN cell \in removedTiles ELSE FALSE

\* hasTileReferences: the layers of mapDocument->map()->layers()
hasTileReferences(layers, removedTiles) ==
    \E i \in DOMAIN layers :
        \/ /\ layers[i].type = "tile"
           /\ \E c \in DOMAIN layers[i].cells :
                 matchesAnyTile(removedTiles, layers[i].cells[c])
        \/ /\ layers[i].type = "objects"
           /\ \E o \in DOMAIN layers[i].objects :
                 matchesAnyTile(removedTiles, layers[i].objects[o].cell)

\* LayerIterator: every layer of the map, the layers of a group layer before
\* the group layer itself
RECURSIVE LayerIterator(_)
LayerIterator(layers) ==
    IF layers = <<>> THEN <<>>
    ELSE LET layer == Head(layers)
         IN  (IF layer.type = "group" THEN LayerIterator(layer.layers) ELSE <<>>)
             \o <<layer>> \o LayerIterator(Tail(layers))

EraseTilesCmd(layer, region) ==
    [kind |-> "EraseTiles", layer |-> layer, region |-> region, objects |-> <<>>]
RemoveMapObjectsCmd(objects) ==
    [kind |-> "RemoveMapObjects", layer |-> "", region |-> {}, objects |-> objects]

\* TileLayer::region(condition)
Region(tileLayer, removedTiles) ==
    {c \in DOMAIN tileLayer.cells : matchesAnyTile(removedTiles, tileLayer.cells[c])}

\* the loop of removeTileReferences over the layers the iterator gives: the
\* EraseTiles commands pushed and the objects collected, in that order
RECURSIVE ReferencesLoop(_, _, _)
ReferencesLoop(all, removedTiles, l) ==
    IF all = <<>> THEN l
    ELSE LET layer == Head(all)
             refs == Region(layer, removedTiles)
             found == SelectSeq(layer.objects, LAMBDA object :
                          matchesAnyTile(removedTiles, object.cell))
             next ==
                CASE layer.type = "tile" /\ refs # {} ->
                       [l EXCEPT !.pushed = Append(@, EraseTilesCmd(layer.id, refs))]
                  [] layer.type = "objects" ->
                       [l EXCEPT !.objectsToRemove =
                           @ \o [i \in DOMAIN found |-> found[i].id]]
                  [] OTHER -> l
         IN  ReferencesLoop(Tail(all), removedTiles, next)

\* EraseTiles::redo and RemoveMapObjects::redo on the layers of a map
RECURSIVE RedoMapCmd(_, _)
RedoMapCmd(layers, cmd) ==
    [i \in DOMAIN layers |->
        LET layer == layers[i]
        IN  CASE layer.type = "tile" /\ cmd.kind = "EraseTiles"
                                     /\ cmd.layer = layer.id ->
                   [layer EXCEPT !.cells = [c \in DOMAIN layer.cells |->
                       IF c \in cmd.region THEN NoTile ELSE layer.cells[c]]]
              [] layer.type = "objects" /\ cmd.kind = "RemoveMapObjects" ->
                   [layer EXCEPT !.objects = SelectSeq(layer.objects,
                       LAMBDA object : \A o \in DOMAIN cmd.objects :
                                          cmd.objects[o] # object.id)]
              [] layer.type = "group" ->
                   [layer EXCEPT !.layers = RedoMapCmd(layer.layers, cmd)]
              [] OTHER -> layer]

RECURSIVE RedoMapCmds(_, _)
RedoMapCmds(layers, cmds) ==
    IF cmds = <<>> THEN layers
    ELSE RedoMapCmds(RedoMapCmd(layers, Head(cmds)), Tail(cmds))

\* removeTileReferences on one map document: the macro "Remove Tiles" of the
\* commands pushed is the next command of the map's undo stack
removeTileReferences(mapDocument, removedTiles) ==
    LET l == ReferencesLoop(LayerIterator(mapDocument.layers), removedTiles,
                            [pushed |-> <<>>, objectsToRemove |-> <<>>])
        children == IF l.objectsToRemove # <<>>
                    THEN Append(l.pushed, RemoveMapObjectsCmd(l.objectsToRemove))
                    ELSE l.pushed
    IN  [layers |-> RedoMapCmds(mapDocument.layers, children),
         undo |-> Append(mapDocument.undo, MacroCmd(children))]

\* the tiles at the selected indexes of the view: an index past the last tile
\* of the grid has no tile
SelectedTiles(e, indexes) ==
    SelectSeq(e.tiles, LAMBDA tile :
        \E i \in indexes \cap DOMAIN e.tiles : e.tiles[i].id = tile.id)

\* TilesetEditor::removeTiles on a current tileset whose view has the
\* selection indexes; yes is the user's answer to the warning, when it shows
RemoveTilesSt(e, ms, current, indexes, yes) ==
    LET selected == SelectedTiles(e, indexes)
        removedTiles == {selected[i].id : i \in DOMAIN selected}
        mapsUsingTiles ==
            {m \in MapDocs : hasTileReferences(ms[m].layers, removedTiles)}
    IN  IF indexes = {} \/ (mapsUsingTiles # {} /\ ~yes)
        THEN [e |-> e, maps |-> ms, current |-> current, removed |-> {}]
        ELSE [e |-> Push(e, RemoveTilesCmd(selected)),
              maps |-> [m \in MapDocs |->
                          IF m \in mapsUsingTiles
                          THEN removeTileReferences(ms[m], removedTiles)
                          ELSE ms[m]],
              current |-> NoTile,
              removed |-> removedTiles]

removeTiles(indexes, yes) ==
    /\ undoStack.index < MaxUndo
    /\ LET res == RemoveTilesSt(Here, maps, mCurrentTile, indexes, yes)
       IN  /\ CommitEditor(res.e)
           /\ maps' = res.maps
           /\ mCurrentTile' = res.current
    /\ UNCHANGED besidesMaps

\* TilesetEditor::currentChanged: the user makes a tile of the view current
currentChanged(index) ==
    /\ index \in DOMAIN tiles
    /\ mCurrentTile # tiles[index].id
    /\ mCurrentTile' = tiles[index].id
    /\ UNCHANGED <<maps, editorVars, besidesMaps>>

\* what a cell of the maps can hold: a tile of the tileset, or none
CellTiles == {NoTile} \cup 0..(MaxTiles - 2)

\* two maps use the tileset: the first has a tile layer, a group layer with
\* an object group in it and an image layer; the second an object group and
\* a group layer with a group layer in it that holds a tile layer
MapsOf(c1, c2, c3, c4) ==
    [m \in MapDocs |->
        IF m = "m1"
        THEN [layers |-> <<TileLayer("ground", <<c1>>),
                           GroupLayer("props",
                               <<ObjectGroup("things", <<MapObject(1, c2)>>)>>),
                           ImageLayer("sky")>>,
              undo |-> <<>>]
        ELSE [layers |-> <<ObjectGroup("npcs", <<MapObject(2, c3)>>),
                           GroupLayer("floors",
                               <<GroupLayer("upper",
                                   <<TileLayer("roof", <<c4>>)>>)>>)>>,
              undo |-> <<>>]]

\* no map uses the tileset
InitNoMaps ==
    /\ maps = [m \in MapDocs |-> [layers |-> <<>>, undo |-> <<>>]]
    /\ mCurrentTile = NoTile

\* a tileset of MaxTiles - 1 tiles is open in the editor, and two maps use it
InitRemoveTiles ==
    /\ terrains = <<>>
    /\ tiles = [i \in 1..(MaxTiles - 1) |->
                  [id |-> i - 1, source |-> "a.png", terrain |-> NoTerrain]]
    /\ nextTileId = MaxTiles - 1
    /\ undoStack = EmptyUndoStack
    /\ lastPath = ""
    /\ \E c1 \in CellTiles : \E c2 \in CellTiles :
       \E c3 \in CellTiles : \E c4 \in CellTiles :
          maps = MapsOf(c1, c2, c3, c4)
    /\ mCurrentTile = NoTile

NextRemoveTiles ==
    \/ \E indexes \in SUBSET (1..MaxTiles) : \E yes \in BOOLEAN :
          removeTiles(indexes, yes)
    \/ \E index \in 1..MaxTiles : currentChanged(index)
    \/ undo
    \/ redo

(***************************************************************************)
(* AbstractObjectTool::saveSelectedObject                                  *)
(***************************************************************************)
\* the directory the template files are in
TemplatesDir == "templates"

\* saveObjectTemplate: the user picks the file fileName in the dialog, or
\* none (""), and format->write succeeds or fails.  The result is the file
\* name returned, the template files and the preference afterwards.
SaveObjectTemplate(mapObject, fileName, written) ==
    IF fileName = "" \/ ~written
    THEN [fileName |-> "", fs |-> tfiles, lastPath |-> lastTemplatePath]
    ELSE [fileName |-> fileName,
          fs |-> [tfiles EXCEPT ![fileName] =
                     [exists |-> TRUE, object |-> mapObject.object]],
          lastPath |-> TemplatesDir]

\* ReplaceObjectsWithTemplate::redo: the object becomes an instance of the
\* template and takes what the template's object holds, if it has one
ReplaceWithTemplate(mapObject, objectTemplate, objects) ==
    [object |-> IF objects[objectTemplate] # NoObject
                THEN objects[objectTemplate]
                ELSE mapObject.object,
     template |-> objectTemplate]

\* AbstractObjectTool::saveSelectedObject
SaveSelectedObjectSt(fileName, written) ==
    LET saved == SaveObjectTemplate(selectedObject, fileName, written)
        loaded == LoadObjectTemplateIn(saved.fs, saved.fileName)
    IN  IF saved.fileName = ""
        THEN [replaced |-> FALSE, fs |-> saved.fs, lastPath |-> saved.lastPath,
              templates |-> mObjectTemplates, objects |-> templateObject,
              watcher |-> mWatcher, selected |-> selectedObject,
              ret |-> NoTemplate, cached |-> FALSE]
        ELSE [replaced |-> TRUE, fs |-> saved.fs, lastPath |-> saved.lastPath,
              templates |-> loaded.templates, objects |-> loaded.objects,
              watcher |-> loaded.watcher,
              selected |-> ReplaceWithTemplate(selectedObject, loaded.ret,
                                               loaded.objects),
              ret |-> loaded.ret, cached |-> loaded.cached]

saveSelectedObject(fileName, written) ==
    LET res == SaveSelectedObjectSt(fileName, written)
    IN  /\ tfiles' = res.fs
        /\ lastTemplatePath' = res.lastPath
        /\ mObjectTemplates' = res.templates
        /\ templateObject' = res.objects
        /\ mWatcher' = res.watcher
        /\ selectedObject' = res.selected
        /\ tret' = IF res.replaced
                   THEN [file |-> fileName, instance |-> res.ret,
                         cached |-> res.cached]
                   ELSE tret
        /\ firstReturned' = IF res.replaced /\ firstReturned[fileName] = NoTemplate
                            THEN [firstReturned EXCEPT ![fileName] = res.ret]
                            ELSE firstReturned
        /\ tlog' = IF res.replaced THEN NoLog ELSE tlog
        /\ UNCHANGED besidesTool

\* the user selects another object of the map, one that is no instance of a
\* template
selectObject(object) ==
    /\ selectedObject # [object |-> object, template |-> NoTemplate]
    /\ selectedObject' = [object |-> object, template |-> NoTemplate]
    /\ UNCHANGED <<lastTemplatePath, templateVars, besidesTool>>

InitTool ==
    /\ selectedObject = [object |-> 1, template |-> NoTemplate]
    /\ lastTemplatePath = ""

\* the TemplateManager with a map open in the editor
NextTool ==
    \/ \E f \in TFiles : loadObjectTemplate(f)
    \/ \E f \in TFiles : fileChanged(f)
    \/ \E f \in TFiles : WriteTemplateFile(f)
    \/ \E f \in TFiles \cup {""} : \E written \in BOOLEAN :
          saveSelectedObject(f, written)
    \/ \E object \in 1..MaxObject : selectObject(object)

(***************************************************************************)
(* TemplatesDock.  The functions are operators on the record st of the     *)
(* docks, the dummy documents, ourDummyDocuments, the objects of the       *)
(* templates and the template files.                                       *)
(***************************************************************************)
Docks == {"mapEditor", "tilesetEditor"}
DockSeq == <<"mapEditor", "tilesetEditor">>

\* the dummy map documents that can be alive at a time
DocIds == 1..Cardinality(Docks)

\* the dock as its constructor leaves it
NewDock ==
    [mObjectTemplate |-> NoTemplate, mDummyMapDocument |-> NoDocument,
     undoEnabled |-> FALSE, redoEnabled |-> FALSE, connected |-> {}]

\* a dummy document of the object, with an empty undo stack
DummyDocument(object) == [object |-> object, cmds |-> <<>>, index |-> 0]

\* a document that does not exist
Destroyed == DummyDocument(NoObject)

\* QUndoStack::canUndo, QUndoStack::canRedo
canUndo(document) == document.index > 0
canRedo(document) == document.index < Len(document.cmds)

\* a hash entry is a weak pointer: to no document once the document is gone
NoWeakPointer == [present |-> FALSE, doc |-> NoDocument]
WeakPointer(doc) == [present |-> TRUE, doc |-> doc]

DockState(ds, docs, our, objects, fs) ==
    [docks |-> ds, documents |-> docs, ourDummyDocuments |-> our,
     objects |-> objects, fs |-> fs]

\* the docks whose mDummyMapDocument is the document
Holders(ds, doc) == {d \in Docks : ds[d].mDummyMapDocument = doc}

\* the last MapDocumentPtr to the document goes away: the document is
\* destroyed with its undo stack and the connections of it, and the weak
\* pointers to it are null
Release(st, doc) ==
    IF doc = NoDocument \/ Holders(st.docks, doc) # {} THEN st
    ELSE [st EXCEPT
            !.documents[doc] = Destroyed,
            !.ourDummyDocuments = [t \in Instances |->
                IF st.ourDummyDocuments[t].doc = doc
                THEN WeakPointer(NoDocument)
                ELSE st.ourDummyDocuments[t]],
            !.docks = [d \in Docks |->
                [st.docks[d] EXCEPT !.connected = @ \ {doc}]]]

\* setTemplate as it would be if it made a dummy map document of its own
\* every time
SetTemplateSt_NeverShares(st, d, objectTemplate) ==
    LET dock == st.docks[d]
        previousDocument == dock.mDummyMapDocument
        new == CHOOSE doc \in DocIds : Holders(st.docks, doc) = {}
        st1 == [st EXCEPT
                  !.documents[new] = DummyDocument(st.objects[objectTemplate]),
                  !.ourDummyDocuments[objectTemplate] = WeakPointer(new)]
        st2 == IF st.objects[objectTemplate] # NoObject
               THEN [st1 EXCEPT !.docks[d] =
                       [mObjectTemplate |-> objectTemplate,
                        mDummyMapDocument |-> new,
                        undoEnabled |-> FALSE,
                        redoEnabled |-> FALSE,
                        connected |-> dock.connected \cup {new}]]
               ELSE [st EXCEPT !.docks[d].mObjectTemplate = objectTemplate,
                               !.docks[d].mDummyMapDocument = NoDocument]
        st3 == IF previousDocument # NoDocument
               THEN [st2 EXCEPT !.docks[d].connected = @ \ {previousDocument}]
               ELSE st2
    IN  IF dock.mObjectTemplate = objectTemplate THEN st
        ELSE Release(st3, previousDocument)

\* TemplatesDock::setTemplate of dock d
SetTemplateSt(st, d, objectTemplate) ==
    LET dock == st.docks[d]
        previousDocument == dock.mDummyMapDocument
        shared == st.ourDummyDocuments[objectTemplate].doc
        new == CHOOSE doc \in DocIds : Holders(st.docks, doc) = {}
        document == IF shared # NoDocument THEN shared ELSE new
        st1 == IF shared # NoDocument THEN st
               ELSE [st EXCEPT
                       !.documents[new] = DummyDocument(st.objects[objectTemplate]),
                       !.ourDummyDocuments[objectTemplate] = WeakPointer(new)]
        st2 == IF st.objects[objectTemplate] # NoObject
               THEN [st1 EXCEPT !.docks[d] =
                       [mObjectTemplate |-> objectTemplate,
                        mDummyMapDocument |-> document,
                        undoEnabled |-> canUndo(st1.documents[document]),
                        redoEnabled |-> canRedo(st1.documents[document]),
                        connected |-> dock.connected \cup {document}]]
               ELSE [st EXCEPT !.docks[d].mObjectTemplate = objectTemplate,
                               !.docks[d].mDummyMapDocument = NoDocument]
        st3 == IF previousDocument # NoDocument
               THEN [st2 EXCEPT !.docks[d].connected = @ \ {previousDocument}]
               ELSE st2
    IN  IF dock.mObjectTemplate = objectTemplate THEN st
        ELSE Release(st3, previousDocument)

\* ObjectTemplate::fileName()
FileNameOf(objectTemplate) ==
    CHOOSE f \in TFiles : mObjectTemplates[f] = objectTemplate

\* TemplatesDock::applyChanges of dock d; the template file is written
ApplyChanges(st, d) ==
    LET dock == st.docks[d]
        document == st.documents[dock.mDummyMapDocument]
        fileName == FileNameOf(dock.mObjectTemplate)
    IN  [st EXCEPT
            !.objects[dock.mObjectTemplate] = document.object,
            !.fs[fileName] = [exists |-> TRUE, object |-> document.object],
            !.docks[d].undoEnabled = canUndo(document),
            !.docks[d].redoEnabled = canRedo(document)]

\* QUndoStack::indexChanged of the document: the slots connected to it
RECURSIVE IndexChanged(_, _, _)
IndexChanged(st, doc, ds) ==
    IF ds = <<>> THEN st
    ELSE IndexChanged(IF doc \in st.docks[Head(ds)].connected
                      THEN ApplyChanges(st, Head(ds))
                      ELSE st,
                      doc, Tail(ds))

\* a tool of the dock changes the dummy object: the command is pushed on
\* the undo stack of the dummy document
PushChange(st, doc, object) ==
    LET document == st.documents[doc]
        cmd == [old |-> document.object, new |-> object]
    IN  IndexChanged([st EXCEPT !.documents[doc] =
                        [object |-> object,
                         cmds |-> Append(SubSeq(document.cmds, 1, document.index), cmd),
                         index |-> document.index + 1]],
                     doc, DockSeq)

\* TemplatesDock::undo
UndoDockSt(st, d) ==
    LET doc == st.docks[d].mDummyMapDocument
        document == st.documents[doc]
    IN  IF doc = NoDocument THEN st
        ELSE IF ~canUndo(document) THEN st
        ELSE IndexChanged([st EXCEPT !.documents[doc] =
                             [document EXCEPT
                                !.object = document.cmds[document.index].old,
                                !.index = @ - 1]],
                          doc, DockSeq)

\* TemplatesDock::redo
RedoDockSt(st, d) ==
    LET doc == st.docks[d].mDummyMapDocument
        document == st.documents[doc]
    IN  IF doc = NoDocument THEN st
        ELSE IF ~canRedo(document) THEN st
        ELSE IndexChanged([st EXCEPT !.documents[doc] =
                             [document EXCEPT
                                !.object = document.cmds[document.index + 1].new,
                                !.index = @ + 1]],
                          doc, DockSeq)

\* the state the docks are in, with the objects of the templates
DocksHere(objects) ==
    DockState(docks, documents, ourDummyDocuments, objects, tfiles)

CommitDocks(st) ==
    /\ docks' = st.docks
    /\ documents' = st.documents
    /\ ourDummyDocuments' = st.ourDummyDocuments
    /\ templateObject' = st.objects
    /\ tfiles' = st.fs

\* TemplatesDock::openTemplate and TemplatesDock::tryOpenTemplate of dock d:
\* try says which of the two
openTemplate(d, path, try) ==
    LET res == LoadObjectTemplateSt(path)
    IN  /\ mObjectTemplates' = res.templates
        /\ mWatcher' = res.watcher
        /\ tret' = [file |-> path, instance |-> res.ret, cached |-> res.cached]
        /\ firstReturned' = IF firstReturned[path] = NoTemplate
                            THEN [firstReturned EXCEPT ![path] = res.ret]
                            ELSE firstReturned
        /\ tlog' = NoLog
        /\ IF try /\ res.objects[res.ret] = NoObject
           THEN CommitDocks(DocksHere(res.objects))
           ELSE CommitDocks(SetTemplateSt(DocksHere(res.objects), d, res.ret))
        /\ UNCHANGED besidesDocks

\* the user changes the dummy object with a tool of dock d
changeObject(d, object) ==
    /\ docks[d].mDummyMapDocument # NoDocument
    /\ documents[docks[d].mDummyMapDocument].index < MaxDockUndo
    /\ documents[docks[d].mDummyMapDocument].object # object
    /\ CommitDocks(PushChange(DocksHere(templateObject),
                              docks[d].mDummyMapDocument, object))
    /\ UNCHANGED <<mObjectTemplates, mWatcher, tret, firstReturned, tlog>>
    /\ UNCHANGED besidesDocks

\* mUndoAction of dock d is triggered
undoDock(d) ==
    /\ docks[d].undoEnabled
    /\ CommitDocks(UndoDockSt(DocksHere(templateObject), d))
    /\ UNCHANGED <<mObjectTemplates, mWatcher, tret, firstReturned, tlog>>
    /\ UNCHANGED besidesDocks

\* mRedoAction of dock d is triggered
redoDock(d) ==
    /\ docks[d].redoEnabled
    /\ CommitDocks(RedoDockSt(DocksHere(templateObject), d))
    /\ UNCHANGED <<mObjectTemplates, mWatcher, tret, firstReturned, tlog>>
    /\ UNCHANGED besidesDocks

\* another program makes a template of a file that was none
repairTemplateFile(f) ==
    /\ tfiles[f] = [exists |-> TRUE, object |-> NoObject]
    /\ tfiles' = [tfiles EXCEPT ![f].object = 1]
    /\ UNCHANGED <<mObjectTemplates, templateObject, mWatcher, tret,
                   firstReturned, tlog>>
    /\ UNCHANGED besidesTemplates

\* each template file is missing, is no template, or holds a template
InitTemplateFiles ==
    /\ tfiles \in [TFiles -> {[exists |-> FALSE, object |-> NoObject],
                              [exists |-> TRUE, object |-> NoObject],
                              [exists |-> TRUE, object |-> 1]}]
    /\ mObjectTemplates = [f \in TFiles |-> NoTemplate]
    /\ templateObject = [i \in Instances |-> NoObject]
    /\ mWatcher = {}
    /\ tret = NoReturn
    /\ firstReturned = [f \in TFiles |-> NoTemplate]
    /\ tlog = NoLog

InitDocks ==
    /\ docks = [d \in Docks |-> NewDock]
    /\ documents = [doc \in DocIds |-> Destroyed]
    /\ ourDummyDocuments = [t \in Instances |-> NoWeakPointer]

NextDocks ==
    \/ \E d \in Docks : \E path \in TFiles : \E try \in BOOLEAN :
          openTemplate(d, path, try)
    \/ \E d \in Docks : \E object \in 1..MaxObject : changeObject(d, object)
    \/ \E d \in Docks : undoDock(d)
    \/ \E d \in Docks : redoDock(d)
    \/ \E f \in TFiles : fileChanged(f)
    \/ \E f \in TFiles : repairTemplateFile(f)

(***************************************************************************)
(* TilesetEditor::addDocument, removeDocument and setCurrentDocument.  The *)
(* state they work on is the record e of mViewForTileset, the widget stack *)
(* (its views, each with its tileset document, and the place of the        *)
(* current one, 0 when there is none), mCurrentTilesetDocument, the        *)
(* document of the docks and the active undo stack.  No view has a current *)
(* index.                                                                  *)
(***************************************************************************)
TilesetDocuments == 1..MaxDocuments
Views == 1..MaxDocuments

DocumentsState(views, stack, current, dockDoc, active) ==
    [mViewForTileset |-> views, mWidgetStack |-> stack,
     mCurrentTilesetDocument |-> current, docksDocument |-> dockDoc,
     activeStack |-> active]

TilesetView(id, tilesetDocument) == [id |-> id, tilesetDocument |-> tilesetDocument]

\* QStackedWidget::currentWidget
CurrentWidget(stack) ==
    IF stack.index = 0 THEN NoView ELSE stack.widgets[stack.index].id

\* TilesetView::tilesetDocument of the current widget
CurrentWidgetDocument(stack) ==
    IF stack.index = 0 THEN NoTilesetDocument
    ELSE stack.widgets[stack.index].tilesetDocument

\* QStackedWidget::indexOf
IndexOf(stack, view) ==
    IF \E i \in DOMAIN stack.widgets : stack.widgets[i].id = view
    THEN CHOOSE i \in DOMAIN stack.widgets : stack.widgets[i].id = view
    ELSE 0

RECURSIVE SetCurrentDocumentSt(_, _, _)
RECURSIVE currentWidgetChanged(_, _)
RECURSIVE SetCurrentWidget(_, _, _)

\* TilesetEditor::currentWidgetChanged, the slot of QStackedWidget::currentChanged
currentWidgetChanged(e, currentEditor) ==
    SetCurrentDocumentSt(e, CurrentWidgetDocument(e.mWidgetStack), currentEditor)

\* QStackedWidget::setCurrentWidget: currentChanged is emitted when the
\* current widget changes
SetCurrentWidget(e, view, currentEditor) ==
    LET index == IndexOf(e.mWidgetStack, view)
    IN  IF index = 0 \/ index = e.mWidgetStack.index THEN e
        ELSE currentWidgetChanged([e EXCEPT !.mWidgetStack.index = index],
                                  currentEditor)

\* TilesetEditor::setCurrentDocument; currentEditor says whether the tileset
\* editor is the current editor of the DocumentManager
SetCurrentDocumentSt(e, document, currentEditor) ==
    LET e1 == IF document # NoTilesetDocument /\ currentEditor
              THEN [e EXCEPT !.activeStack = document]
              ELSE e
        e2 == IF document # NoTilesetDocument
              THEN SetCurrentWidget(e1, e1.mViewForTileset[document], currentEditor)
              ELSE e1
    IN  IF e1.mCurrentTilesetDocument = document THEN e1
        ELSE [e2 EXCEPT !.docksDocument = document,
                        !.mCurrentTilesetDocument = document]

\* QStackedWidget::addWidget: the widget is the last one, and the current
\* one when there was none
AddWidget(e, widget, currentEditor) ==
    LET added == [e EXCEPT !.mWidgetStack.widgets = Append(@, widget)]
    IN  IF e.mWidgetStack.index = 0
        THEN currentWidgetChanged(
                 [added EXCEPT !.mWidgetStack.index = Len(added.mWidgetStack.widgets)],
                 currentEditor)
        ELSE added

\* QStackedWidget::removeWidget: when the current widget goes, the one after
\* it, or the one before it when it was the last, is the current one
RemoveWidget(e, view, currentEditor) ==
    LET stack == e.mWidgetStack
        index == IndexOf(stack, view)
        rest == SelectSeq(stack.widgets, LAMBDA widget : widget.id # view)
    IN  IF index = 0 THEN e
        ELSE IF index = stack.index
        THEN currentWidgetChanged(
                 [e EXCEPT !.mWidgetStack =
                     [widgets |-> rest,
                      index |-> IF index > Len(rest) THEN index - 1 ELSE index]],
                 currentEditor)
        ELSE [e EXCEPT !.mWidgetStack =
                 [widgets |-> rest,
                  index |-> IF index < stack.index THEN stack.index - 1
                            ELSE stack.index]]

\* TilesetEditor::addDocument
AddDocumentSt(e, tilesetDocument, currentEditor) ==
    LET view == CHOOSE v \in Views :
                    \A i \in DOMAIN e.mWidgetStack.widgets :
                        e.mWidgetStack.widgets[i].id # v
    IN  AddWidget([e EXCEPT !.mViewForTileset[tilesetDocument] = view],
                  TilesetView(view, tilesetDocument), currentEditor)

\* removeDocument as it would be if it deleted the view and left the stack
\* of widgets to itself
RemoveDocumentSt_KeepsWidget(e, tilesetDocument, currentEditor) ==
    [e EXCEPT !.mViewForTileset[tilesetDocument] = NoView]

\* TilesetEditor::removeDocument
RemoveDocumentSt(e, tilesetDocument, currentEditor) ==
    LET view == e.mViewForTileset[tilesetDocument]
    IN  RemoveWidget([e EXCEPT !.mViewForTileset[tilesetDocument] = NoView],
                     view, currentEditor)

\* the state the editor's documents are in
DocumentsHere ==
    DocumentsState(mViewForTileset, mWidgetStack, mCurrentTilesetDocument,
                   docksDocument, activeStack)

CommitDocuments(e) ==
    /\ mViewForTileset' = e.mViewForTileset
    /\ mWidgetStack' = e.mWidgetStack
    /\ mCurrentTilesetDocument' = e.mCurrentTilesetDocument
    /\ docksDocument' = e.docksDocument
    /\ activeStack' = e.activeStack

\* the DocumentManager adds a document it has not added yet
addDocument(tilesetDocument) ==
    /\ mViewForTileset[tilesetDocument] = NoView
    /\ \E currentEditor \in BOOLEAN :
          CommitDocuments(AddDocumentSt(DocumentsHere, tilesetDocument, currentEditor))
    /\ lastRemoved' = NoTilesetDocument
    /\ UNCHANGED besidesDocuments

\* the DocumentManager removes a document it has added
removeDocument(tilesetDocument) ==
    /\ mViewForTileset[tilesetDocument] # NoView
    /\ \E currentEditor \in BOOLEAN :
          CommitDocuments(RemoveDocumentSt(DocumentsHere, tilesetDocument,
                                           currentEditor))
    /\ lastRemoved' = tilesetDocument
    /\ UNCHANGED besidesDocuments

\* the DocumentManager makes a document it has added, or none, the current one
setCurrentDocument(document) ==
    /\ document # NoTilesetDocument => mViewForTileset[document] # NoView
    /\ \E currentEditor \in BOOLEAN :
          CommitDocuments(SetCurrentDocumentSt(DocumentsHere, document,
                                               currentEditor))
    /\ lastRemoved' = NoTilesetDocument
    /\ UNCHANGED besidesDocuments

\* the editor as its constructor leaves it
InitDocuments ==
    /\ mViewForTileset = [d \in TilesetDocuments |-> NoView]
    /\ mWidgetStack = [widgets |-> <<>>, index |-> 0]
    /\ mCurrentTilesetDocument = NoTilesetDocument
    /\ docksDocument = NoTilesetDocument
    /\ activeStack = NoTilesetDocument
    /\ lastRemoved = NoTilesetDocument

NextDocuments ==
    \/ \E d \in TilesetDocuments : addDocument(d)
    \/ \E d \in TilesetDocuments : removeDocument(d)
    \/ \E d \in TilesetDocuments \cup {NoTilesetDocument} : setCurrentDocument(d)

(***************************************************************************)
(* The specifications: one per component, the other components at rest.    *)
(* Every file system starts empty.                                         *)
(***************************************************************************)
Init ==
    /\ InitImageCache
    /\ InitTemplates
    /\ InitScript
    /\ InitAddTiles
    /\ InitTool
    /\ InitNoMaps
    /\ InitDocks
    /\ InitDocuments

\* a tileset with terrains is open in the editor
InitWithTerrains ==
    /\ InitImageCache
    /\ InitTemplates
    /\ InitScript
    /\ InitTerrain
    /\ InitTool
    /\ InitNoMaps
    /\ InitDocks
    /\ InitDocuments

SpecImageCache == Init /\ [][NextImageCache]_vars

SpecTemplates == Init /\ [][NextTemplates]_vars

SpecScript == Init /\ [][NextScript]_vars

SpecAddTiles == Init /\ [][NextAddTiles]_vars

SpecTerrain == InitWithTerrains /\ [][NextTerrain]_vars

SpecTool == Init /\ [][NextTool]_vars

\* two maps use the tileset that is open in the editor
InitWithMaps ==
    /\ InitImageCache
    /\ InitTemplates
    /\ InitScript
    /\ InitTool
    /\ InitRemoveTiles
    /\ InitDocks
    /\ InitDocuments

SpecRemoveTiles == InitWithMaps /\ [][NextRemoveTiles]_vars

\* template files exist, and the docks show no template
InitWithTemplateFiles ==
    /\ InitImageCache
    /\ InitTemplateFiles
    /\ InitScript
    /\ InitAddTiles
    /\ InitTool
    /\ InitNoMaps
    /\ InitDocks
    /\ InitDocuments

SpecDocks == InitWithTemplateFiles /\ [][NextDocks]_vars

SpecDocuments == Init /\ [][NextDocuments]_vars

(***************************************************************************)
(* The properties.  ImageCache                                              *)
(***************************************************************************)
ParamsOf(f) == {p \in Params : p.fileName = f}

\* C1: whatever loadImage(f), loadPixmap(f) or cutTiles(p) returns is an
\* entry of the cache whose lastModified is not older than the file's time at
\* the call; an older entry found by the call is removed and the file is
\* decoded again.
C1_NeverOlder ==
    \A f \in Files :
        LET li == LoadImageSt(Current, f)
            lp == LoadPixmapSt(Current, f)
        IN  /\ li.r.present /\ li.r = li.c.img[f]
            /\ li.r.lastModified >= files[f].mtime
            /\ lp.r.present /\ lp.r = lp.c.pix[f]
            /\ lp.r.lastModified >= files[f].mtime
            /\ sLoadedImages[f].present
                 /\ sLoadedImages[f].lastModified < files[f].mtime
               => f \in li.c.decoded
            /\ sLoadedPixmaps[f].present
                 /\ sLoadedPixmaps[f].lastModified < files[f].mtime
               => f \in lp.c.decoded
            /\ \A p \in ParamsOf(f) :
                 LET ct == CutTilesSt(Current, p)
                 IN  /\ ct.r.present /\ ct.r = ct.c.cut[p]
                     /\ ct.r.lastModified >= files[f].mtime
                     /\ sCutTiles[p].present
                          /\ sCutTiles[p].lastModified < files[f].mtime
                        => f \in ct.c.decoded

\* an image, a pixmap and cut tiles of one file are cached and all three are
\* older than the file
C1_Witness ==
    \E f \in Files : \E p \in ParamsOf(f) :
        /\ sLoadedImages[f].present
        /\ sLoadedPixmaps[f].present
        /\ sCutTiles[p].present
        /\ sLoadedImages[f].lastModified < files[f].mtime
        /\ sLoadedPixmaps[f].lastModified < files[f].mtime
        /\ sCutTiles[p].lastModified < files[f].mtime

\* every load of f returns data of the file's current content
FreshLoadsIn(c, f) ==
    /\ LoadImageSt(c, f).r.data.src = c.files[f].ver
    /\ LoadPixmapSt(c, f).r.data.src = c.files[f].ver
    /\ \A p \in ParamsOf(f) : CutTilesSt(c, p).r.data.src = c.files[f].ver

FreshLoads(f) == FreshLoadsIn(Current, f)

\* C2 as stated: in every state, so after every modification of f, a load of
\* an existing file f returns data decoded from the current content of f.
C2_AlwaysFresh == \A f \in Files : files[f].kind # "none" => FreshLoads(f)

\* C2 amended: after a modification that leaves f with a last-modified time
\* later than the one recorded in every cache entry of f, the loads of f
\* return data decoded from the modified content, until f is modified again.
C2_FreshAfterAdvance == \A f \in Files : advanced[f] => FreshLoads(f)

\* a file was written again and its cached image, pixmap and tiles are those
\* of the second content
C2_Witness ==
    \E f \in Files : \E p \in ParamsOf(f) :
        /\ files[f].ver >= 2
        /\ advanced[f]
        /\ sLoadedImages[f].present /\ sLoadedImages[f].data.src = files[f].ver
        /\ sLoadedPixmaps[f].present /\ sLoadedPixmaps[f].data.src = files[f].ver
        /\ sCutTiles[p].present /\ sCutTiles[p].data.src = files[f].ver

\* C3: a call that finds an entry not older than the file returns that entry,
\* decodes nothing and leaves the three caches as they are.
C3_HitLeavesCaches ==
    \A f \in Files :
        /\ sLoadedImages[f].present
             /\ ~(sLoadedImages[f].lastModified < files[f].mtime)
           => LET li == LoadImageSt(Current, f)
              IN  li.r = sLoadedImages[f] /\ li.c = Current
        /\ sLoadedPixmaps[f].present
             /\ ~(sLoadedPixmaps[f].lastModified < files[f].mtime)
           => LET lp == LoadPixmapSt(Current, f)
              IN  lp.r = sLoadedPixmaps[f] /\ lp.c = Current
        /\ \A p \in ParamsOf(f) :
             sCutTiles[p].present
               /\ ~(sCutTiles[p].lastModified < files[f].mtime)
             => LET ct == CutTilesSt(Current, p)
                IN  ct.r = sCutTiles[p] /\ ct.c = Current

\* all three caches hold an entry of an existing file as old as the file
C3_Witness ==
    \E f \in Files : \E p \in ParamsOf(f) :
        /\ files[f].kind # "none"
        /\ sLoadedImages[f].present
        /\ sLoadedPixmaps[f].present
        /\ sCutTiles[p].present
        /\ sLoadedImages[f].lastModified = files[f].mtime
        /\ sLoadedPixmaps[f].lastModified = files[f].mtime
        /\ sCutTiles[p].lastModified = files[f].mtime

\* C4: when loadImage(f) returns, sLoadedImages holds an entry for f and it
\* is the value returned, also when the image is null and when readMap loaded
\* other files or f itself in the meantime.
C4_ReturnsItsEntry ==
    \A f \in Files :
        LET li == LoadImageSt(Current, f)
        IN  /\ li.c.img[f].present
            /\ li.r = li.c.img[f]

\* a map that names itself as tileset image was loaded: its rendered image is
\* cached, and so are the tiles the nested call cut from a null image
C4_Witness ==
    \E f \in Files :
        /\ files[f].kind = "map"
        /\ SmallSheet(f) \in files[f].refs
        /\ sLoadedImages[f].present
        /\ ~sLoadedImages[f].data.null
        /\ sCutTiles[SmallSheet(f)].present
        /\ sCutTiles[SmallSheet(f)].data.null

(***************************************************************************)
(* TemplateManager                                                         *)
(***************************************************************************)
\* C5: loadObjectTemplate(fileName) never returns null, and over any sequence
\* of loadObjectTemplate and fileChanged calls every call with the same file
\* name returns the same ObjectTemplate instance: the manager holds at most
\* one template per file name and never removes or replaces a managed
\* instance.
C5_SameInstance ==
    /\ tret # NoReturn =>
          /\ tret.instance # NoTemplate
          /\ tret.instance = firstReturned[tret.file]
    /\ \A f \in TFiles :
          /\ LoadObjectTemplateSt(f).ret # NoTemplate
          /\ firstReturned[f] # NoTemplate =>
                /\ LoadObjectTemplateSt(f).ret = firstReturned[f]
                /\ mObjectTemplates[f] = firstReturned[f]
          /\ \A g \in TFiles :
                (f # g /\ mObjectTemplates[f] # NoTemplate) =>
                    mObjectTemplates[f] # mObjectTemplates[g]

\* both templates are managed, the file of one was changed and reloaded with
\* fileChanged, and a later loadObjectTemplate of it returned the cached
\* instance
C5_Witness ==
    /\ tret.cached
    /\ \A f \in TFiles : firstReturned[f] # NoTemplate
    /\ tfiles[tret.file].exists
    /\ templateObject[tret.instance] = MaxObject
    /\ \E f \in TFiles : ~tfiles[f].exists /\ templateObject[mObjectTemplates[f]] # NoObject

\* C6: fileChanged(f) reloads a managed template in place: if f is read
\* successfully the existing instance receives the newly read object and
\* objectTemplateChanged is emitted for it exactly once; if reading fails the
\* template's object is left unchanged, no objectTemplateChanged is emitted
\* and an error is logged; if f is not managed, nothing changes.
C6_ReloadInPlace ==
    \A f \in TFiles :
        LET res == FileChangedSt(f)
            managed == mObjectTemplates[f]
            readable == tfiles[f].exists /\ tfiles[f].object # NoObject
        IN  /\ managed = NoTemplate =>
                  res.objects = templateObject /\ res.log = NoLog
            /\ (managed # NoTemplate /\ readable) =>
                  /\ res.objects[managed] = tfiles[f].object
                  /\ \A i \in Instances \ {managed} :
                        res.objects[i] = templateObject[i]
                  /\ res.log = [changed |-> <<managed>>, errors |-> 0]
            /\ (managed # NoTemplate /\ ~readable) =>
                  /\ res.objects = templateObject
                  /\ res.log = [changed |-> <<>>, errors |-> 1]

\* fileChanged has failed on a managed template that keeps the object of an
\* earlier read, while the other file is not managed
C6_Witness ==
    /\ tlog.errors = 1
    /\ \E f \in TFiles :
          /\ mObjectTemplates[f] # NoTemplate
          /\ templateObject[mObjectTemplates[f]] # NoObject
          /\ tfiles[f].exists /\ tfiles[f].object = NoObject
    /\ \E f \in TFiles : mObjectTemplates[f] = NoTemplate

(***************************************************************************)
(* ScriptManager                                                           *)
(***************************************************************************)
\* the directories loadExtensions searches: the extensions paths and the
\* folders in them
ExtensionDirs ==
    {mExtensionsPaths[i] : i \in DOMAIN mExtensionsPaths}
    \cup {d \in sfs : d = "ext/sub"
                      /\ \E i \in DOMAIN mExtensionsPaths : mExtensionsPaths[i] = "ext"}

\* the scripts in those directories
ExtensionScripts ==
    {path \in sfs : path # "ext/sub" /\ Parent(path) \in ExtensionDirs}

\* C7: when the watcher reports a change (scriptFilesChanged) the script
\* engine is reloaded: the old engine and module are destroyed, a new engine
\* and module are created, the temp-value counter is back at 0, the watcher is
\* cleared and every extension path and every *.js file in it is evaluated and
\* watched again; when the handler returns mEngine and mModule are non-null.
C7_EngineReloaded ==
    slast.handler = "scriptFilesChanged" =>
        /\ script.mEngine # NoQObject
        /\ script.mModule # NoQObject
        /\ script.mEngine # script.mModule
        /\ {script.mEngine, script.mModule} \cap {slast.mEngine, slast.mModule} = {}
        /\ script.live = {script.mEngine, script.mModule}
        /\ script.mTempCount = 0
        /\ script.watched = ExtensionDirs \cup ExtensionScripts
        /\ {script.evaluated[i] : i \in DOMAIN script.evaluated} = ExtensionScripts
        /\ Len(script.evaluated) = Cardinality(ExtensionScripts)

\* scriptFilesChanged has replaced an engine that had handed out temp values,
\* with the project's extensions in use and a script of an extension folder
\* and one of the project loaded
C7_Witness ==
    /\ slast.handler = "scriptFilesChanged"
    /\ slast.mEngine # NoQObject
    /\ slast.mTempCount > 0
    /\ {"ext/sub/b.js", "proj/c.js"} \subseteq script.watched
    /\ "ext/a.js" \notin sfs

(***************************************************************************)
(* TilesetEditor                                                           *)
(***************************************************************************)
\* C8: removeTerrainType is reversible as one step: the clearing of every
\* tile corner that names the removed terrain (set to 0xFF) and the removal
\* of the terrain are pushed as one undoable unit (beginMacro and endMacro
\* are both executed or both skipped), so that a single undo restores the
\* terrain and every tile's previous terrain value.
C8_OneUndoableUnit ==
    \A i \in DOMAIN terrains :
        LET id == i - 1
            removed == RemoveTerrainTypeSt(Here, terrains[i])
            undone == UndoSt(removed)
        IN  /\ ~removed.undo.open
            /\ removed.undo.index = undoStack.index + 1
            /\ Len(removed.undo.cmds) = undoStack.index + 1
            /\ \A j \in DOMAIN removed.terrains : removed.terrains[j] # terrains[i]
            /\ Len(removed.terrains) = Len(terrains) - 1
            /\ \A t \in DOMAIN tiles : \A corner \in CornerIds :
                  tiles[t].terrain[corner] = id =>
                      removed.tiles[t].terrain[corner] = NoTerrainId
            /\ undone.terrains = terrains
            /\ undone.tiles = tiles
            /\ undone.undo.index = undoStack.index
            /\ RedoSt(undone) = removed

\* removeTerrainType has removed a terrain that tiles name at some corners and
\* not at others, and the removal was undone: the macro of the two commands
\* is the next to redo, the terrain is back and the tiles name it
C8_Witness ==
    /\ undoStack.index < Len(undoStack.cmds)
    /\ LET cmd == undoStack.cmds[undoStack.index + 1]
       IN  /\ cmd.kind = "macro"
           /\ Len(cmd.children) = 2
           /\ cmd.children[1].kind = "ChangeTileTerrain"
           /\ cmd.children[2].kind = "RemoveTerrain"
           /\ cmd.children[2].index = 0
           /\ \E j \in DOMAIN terrains : terrains[j] = cmd.children[2].terrain
           /\ \E t \in DOMAIN tiles :
                 /\ tiles[t].terrain[0] = 0
                 /\ tiles[t].terrain[1] = 1
                 /\ tiles[t].terrain[2] = NoTerrainId

\* a URL addTiles cannot load
FailsToLoad(url) == PixmapIsNull(toLocalFile(url))

\* the user answers one "Could not load" warning with Cancel
Abandoned(urls, answers) ==
    \E i \in DOMAIN urls : FailsToLoad(urls[i]) /\ answers[i].failure # "Ignore"

\* C9: addTiles is abandoned as a whole when an image fails to load and the
\* user does not choose Ignore: no tile is created, no tile id is taken,
\* nothing is pushed on the undo stack and the last-used image path is
\* unchanged, even if earlier URLs of the call were loaded; with Ignore the
\* failed URL alone is skipped: every URL that loads and is not yet in the
\* tileset gets its tile.
C9_AbandonedAsAWhole ==
    \A urls \in UrlLists : \A answers \in AnswersFor(Here, urls) :
        LET res == AddTilesSt(Here, urls, answers)
            added == SubSeq(res.tiles, Len(tiles) + 1, Len(res.tiles))
            sources == [i \in DOMAIN added |-> added[i].source]
        IN  /\ Abandoned(urls, answers) =>
                  /\ res.tiles = tiles
                  /\ res.nextTileId = nextTileId
                  /\ res.undo = undoStack
                  /\ res.lastPath = lastPath
            /\ ~Abandoned(urls, answers) =>
                  /\ SubSeq(res.tiles, 1, Len(tiles)) = tiles
                  /\ \A i \in DOMAIN sources : ~FailsToLoad(sources[i])
                  /\ SelectSeq(sources, LAMBDA u : ~hasTileInTileset(u, tiles))
                       = SelectSeq(urls, LAMBDA u :
                            ~FailsToLoad(u) /\ ~hasTileInTileset(u, tiles))
                  /\ res.nextTileId = nextTileId + Len(added)
                  /\ \A i \in DOMAIN added : added[i].id = nextTileId + i - 1

\* tiles were added by a call whose last file failed and was ignored, and a
\* call that loads b.png and then fails on a file would, with Cancel, be
\* abandoned after b.png was loaded
C9_Witness ==
    /\ lastPath = "broken.png"
    /\ Len(tiles) > 1
    /\ ~hasTileInTileset("b.png", tiles)
    /\ \E answers \in AnswersFor(Here, <<"b.png", "broken.png">>) :
          /\ Abandoned(<<"b.png", "broken.png">>, answers)
          /\ AddTilesLoop_BreakOnCancel(Here, <<"b.png", "broken.png">>, answers,
                                        StartOfLoop).loadedFiles = <<"b.png">>
          /\ AddTilesSt(Here, <<"b.png", "broken.png">>, answers) = Here

(***************************************************************************)
(* ImageCache                                                              *)
(***************************************************************************)

\* C10: remove(f) leaves no image, pixmap or cut tiles of f, whatever the
\* parameters, and leaves the entries of every other file as they were.
C10_RemoveIsPerFile ==
    \A f \in Files :
        LET c == RemoveSt(Current, f)
        IN  /\ ~c.img[f].present
            /\ ~c.pix[f].present
            /\ \A p \in Params :
                 IF p.fileName = f THEN ~c.cut[p].present
                 ELSE c.cut[p] = sCutTiles[p]
            /\ \A g \in Files \ {f} :
                 c.img[g] = sLoadedImages[g] /\ c.pix[g] = sLoadedPixmaps[g]

\* f1 is cached as image, as pixmap and cut in both ways while f2 is cached
\* too
C10_Witness ==
    /\ sLoadedImages["f1"].present
    /\ sLoadedPixmaps["f1"].present
    /\ sCutTiles[SmallSheet("f1")].present
    /\ sCutTiles[WideSheet("f1")].present
    /\ sLoadedImages["f2"].present
    /\ sLoadedPixmaps["f2"].present
    /\ sCutTiles[SmallSheet("f2")].present

\* no file is given to readMap twice
ReadOnce(reads) ==
    \A i, j \in DOMAIN reads : i # j => reads[i] # reads[j]

\* C11: loading a map file as a metatile image terminates even when the map
\* uses itself as a tileset image, directly or through other maps:
\* renderMap(f) called while f is being read reports the recursion and
\* returns a null image without reading f again, and the set of maps being
\* loaded is empty again once the outermost call has returned.
C11_RecursionEnds ==
    /\ loadingMaps = {}
    /\ \A f \in Files :
          LET inner == RenderMapSt([Current EXCEPT !.loading = {f}], f)
              li == LoadImageSt(Current, f)
          IN  /\ inner.r.null
              /\ inner.c.reads = <<>>
              /\ inner.c.errors = {<<"recursive", f>>}
              /\ inner.c.loading = {f}
              /\ li.c.loading = {}
              /\ ReadOnce(li.c.reads)
              /\ \A g \in Files :
                    <<"recursive", g>> \in li.c.errors =>
                        \E i \in DOMAIN li.c.reads : li.c.reads[i] = g

\* two maps use each other as tileset image and both were loaded: each has
\* an image, and the tiles cut from the first while it was being read are
\* those of a null image
C11_Witness ==
    /\ loadingMaps = {}
    /\ files["f1"].kind = "map" /\ files["f1"].refs = {SmallSheet("f2")}
    /\ files["f2"].kind = "map" /\ files["f2"].refs = {SmallSheet("f1")}
    /\ sLoadedImages["f1"].present /\ ~sLoadedImages["f1"].data.null
    /\ sLoadedImages["f2"].present /\ ~sLoadedImages["f2"].data.null
    /\ sCutTiles[SmallSheet("f1")].present
    /\ sCutTiles[SmallSheet("f1")].data.null
    /\ <<"recursive", "f1">>
          \in LoadImageSt(RemoveSt(RemoveSt(Current, "f1"), "f2"), "f1").c.errors

(***************************************************************************)
(* TemplateManager: broken references and the watcher                      *)
(***************************************************************************)
\* the file can be read as a template
ReadableAsTemplate(f) == tfiles[f].exists /\ tfiles[f].object # NoObject

\* C12: a managed ObjectTemplate without an object marks a broken template
\* reference: at any time, a template returned by loadObjectTemplate(f) has
\* no object only if the file f cannot be read as a template.
C12_NoObjectOnlyIfUnreadable ==
    \A f \in TFiles :
        LET res == LoadObjectTemplateSt(f)
        IN  res.objects[res.ret] = NoObject => ~ReadableAsTemplate(f)

\* C13: after the first loadObjectTemplate(f), f is watched exactly when the
\* file existed at that moment, whether or not it could be parsed; later
\* loadObjectTemplate(f) calls return the cached template and never add a
\* watch.
C13_WatchedIffExisted ==
    \A f \in TFiles :
        LET res == LoadObjectTemplateSt(f)
        IN  /\ f \in mWatcher => mObjectTemplates[f] # NoTemplate
            /\ mObjectTemplates[f] = NoTemplate =>
                  /\ ~res.cached
                  /\ f \in res.watcher <=> tfiles[f].exists
                  /\ res.watcher \ {f} = mWatcher
            /\ mObjectTemplates[f] # NoTemplate =>
                  /\ res.cached
                  /\ res.ret = mObjectTemplates[f]
                  /\ res.watcher = mWatcher

\* one template was first loaded from a file that existed but held no
\* template and is watched; the other was first loaded while its file was
\* missing and is not watched although the file exists now; the last call
\* returned a cached template
C13_Witness ==
    /\ \A f \in TFiles : mObjectTemplates[f] # NoTemplate
    /\ \E f \in TFiles :
          /\ f \in mWatcher
          /\ templateObject[mObjectTemplates[f]] = NoObject
          /\ tfiles[f].exists
    /\ \E f \in TFiles : f \notin mWatcher /\ tfiles[f].exists
    /\ tret.cached
    /\ tret.file \notin mWatcher

(***************************************************************************)
(* AbstractObjectTool                                                      *)
(***************************************************************************)
\* C14: after saveSelectedObject has written the template file, the selected
\* object is replaced by an instance of the template stored in that file,
\* that is, of a managed template whose object equals the saved object;
\* this holds for every earlier history of the TemplateManager, including
\* when that file name was loaded before.
C14_InstanceOfSavedTemplate ==
    \A f \in TFiles :
        LET res == SaveSelectedObjectSt(f, TRUE)
        IN  /\ res.replaced
            /\ res.selected.template # NoTemplate
            /\ res.selected.template = res.templates[f]
            /\ res.objects[res.selected.template] = selectedObject.object

(***************************************************************************)
(* TilesetEditor::removeTiles                                              *)
(***************************************************************************)
\* the tiles the layers refer to, in tile layer cells and tile objects, the
\* layers nested in group layers included
RECURSIVE ReferencedTiles(_)
ReferencedTiles(layers) ==
    UNION {LET layer == layers[i]
           IN  {layer.cells[c] : c \in DOMAIN layer.cells}
               \cup {layer.objects[o].cell : o \in DOMAIN layer.objects}
               \cup ReferencedTiles(layer.layers) : i \in DOMAIN layers}

\* C15: when removeTiles removes tiles, afterwards no map document that uses
\* the tileset refers to a removed tile, in a tile layer cell or a tile
\* object of any layer, the layers nested in group layers included.
C15_NoReferenceLeft ==
    \A indexes \in SUBSET (1..MaxTiles) : \A yes \in BOOLEAN :
        LET res == RemoveTilesSt(Here, maps, mCurrentTile, indexes, yes)
        IN  \A m \in MapDocs :
                ReferencedTiles(res.maps[m].layers) \cap res.removed = {}

C17_ActionsReflectStack ==
    \A d \in Docks :
        LET doc == docks[d].mDummyMapDocument
        IN  /\ docks[d].undoEnabled
                = (doc # NoDocument /\ canUndo(documents[doc]))
            /\ docks[d].redoEnabled
                = (doc # NoDocument /\ canRedo(documents[doc]))

(***************************************************************************)
(* TilesetEditor: the documents                                            *)
(***************************************************************************)
\* C18: the current tileset document is none or a document with a view in
\* mViewForTileset; when removeDocument(d) returns, d has no view and is not
\* the current document.
C18_CurrentHasView ==
    /\ \/ mCurrentTilesetDocument = NoTilesetDocument
       \/ mViewForTileset[mCurrentTilesetDocument] # NoView
    /\ lastRemoved # NoTilesetDocument
       => /\ mViewForTileset[lastRemoved] = NoView
          /\ mCurrentTilesetDocument # lastRemoved
    /\ \A d \in TilesetDocuments : \A currentEditor \in BOOLEAN :
          mViewForTileset[d] # NoView
          => LET e == RemoveDocumentSt(DocumentsHere, d, currentEditor)
             IN  /\ e.mViewForTileset[d] = NoView
                 /\ e.mCurrentTilesetDocument # d
                 /\ \/ e.mCurrentTilesetDocument = NoTilesetDocument
                    \/ e.mViewForTileset[e.mCurrentTilesetDocument] # NoView

\* a document was removed and another one is current, which is not the
\* first one of the stack; removing it makes a third document current
C18_Witness ==
    /\ lastRemoved # NoTilesetDocument
    /\ mCurrentTilesetDocument # NoTilesetDocument
    /\ mWidgetStack.index > 1
    /\ LET e == RemoveDocumentSt(DocumentsHere, mCurrentTilesetDocument, FALSE)
       IN  e.mCurrentTilesetDocument
              \notin {NoTilesetDocument, mCurrentTilesetDocument}

====
